---- MODULE Spec2Model ----
(***************************************************************************)
(* A model of the PC1600 patch codec (package pc1600): the SysEx framer    *)
(* (utils.py), the byte cursor (data.py), the record variants (record.py), *)
(* the patch scan and the document codec (patch.py, __init__.py).          *)
(*                                                                         *)
(* Bytes are naturals 0..255, byte strings and Python lists are sequences. *)
(* A Python call that may raise is an operator returning a result record   *)
(* [exc, at, value]: exc = "none" and the value, or the exception class    *)
(* and the raise site.                                                     *)
(***************************************************************************)
EXTENDS Integers, Sequences, FiniteSets, TLC

VARIABLES
    \* SysEx framer (utils.py)
    fr_pc,       \* "to_pack" | "to_unpack" | "done"
    fr_src,      \* "pack": the wire bytes come from pack_sysex; "input": given
    fr_raw,      \* the payload handed to pack_sysex
    fr_chan,     \* the global_channel handed to pack_sysex
    fr_wire,     \* the bytes handed to unpack_sysex
    fr_res,      \* the result of unpack_sysex
    \* the 16-bit bitmap of Master.faders / Setup.channels
    bm_pc,       \* "to_pack" | "to_decode" | "done"
    bm_ids,      \* the ids handed to Master.pack, a list
    bm_rec,      \* the result of Master.pack
    bm_back,     \* Master.faders of the packed record
    \* SysexPatch.__init__ and the loop of parse_records (patch.py)
    sc_pc,       \* "new" | "scan" | "done" | "failed"
    sc_raw,      \* raw_data
    sc_data,     \* self.data
    sc_st,       \* the locals of parse_records and self._records
    sc_err,      \* the exception that ended the construction
    \* the document codec (patch.py, __init__.py)
    cd_pc,       \* "dump" | "decoded" | "doc" | "encoded" | "done"
    cd_src,      \* the input: "valid_dump" | "broken_dump" | "garbled_dump" |
                 \* "valid_doc" | "broken_doc" | "version_doc" |
                 \* "miscounted_doc"
    cd_dump,     \* the dump handed to decode
    cd_doc,      \* the document: decoded from cd_dump, or the one given
    cd_wire,     \* the bytes sections_to_sysex_patch builds (raw_to_sysex)
    cd_patch,    \* the SysexPatch sections_to_sysex_patch returns
    cd_out,      \* the result of encode
    cd_back,     \* the result of decoding cd_out
    \* one record: pack of a document item, to_dict of a record (record.py)
    rc_pc,       \* "item" | "packed" | "bytes" | "done"
    rc_section,  \* the section of the item or record
    rc_item,     \* the document item handed to pack
    rc_data,     \* the bytes record_factory makes a record of
    rc_rec,      \* the record: result of pack, or of record_factory
    rc_dict,     \* the result of to_dict
    \* two invocations of decode, or of encode, on one input
    in_kind,     \* "decode" | "encode"
    in_input,    \* the dump, or the document, both invocations are handed
    in_tables,   \* the lookup tables of the modules record.py and patch.py
    in_pc,       \* of each invocation: "doc" | "wire" | "scan" | "parsed" |
                 \* "listed" | "done"
    in_local,    \* of each invocation: its local variables
    in_records,  \* of each SysexPatch instance: self._records
    in_out       \* of each invocation: what it returned or raised

frVars == <<fr_pc, fr_src, fr_raw, fr_chan, fr_wire, fr_res>>
bmVars == <<bm_pc, bm_ids, bm_rec, bm_back>>
scVars == <<sc_pc, sc_raw, sc_data, sc_st, sc_err>>
cdVars == <<cd_pc, cd_src, cd_dump, cd_doc, cd_wire, cd_patch, cd_out, cd_back>>
rcVars == <<rc_pc, rc_section, rc_item, rc_data, rc_rec, rc_dict>>
inVars == <<in_kind, in_input, in_tables, in_pc, in_local, in_records, in_out>>
vars == <<frVars, bmVars, scVars, cdVars, rcVars, inVars>>

(***************************************************************************)
(* Results of calls that may raise                                         *)
(***************************************************************************)
Ok(v) == [exc |-> "none", at |-> "", value |-> v]

Raise(e, where) == [exc |-> e, at |-> where, value |-> <<>>]

IsOk(r) == r.exc = "none"

\* the rest of a computation F applied to the value of r, unless r is a raise,
\* which then propagates
Then(r, F(_)) == IF r.exc = "none" THEN F(r.value) ELSE r

\* results of steps run in order: the first that is a raise, else Ok of the
\* list of values
Collected(rs) ==
    IF \E i \in DOMAIN rs : ~IsOk(rs[i])
    THEN rs[CHOOSE i \in DOMAIN rs : ~IsOk(rs[i]) /\ \A j \in 1..(i - 1) : IsOk(rs[j])]
    ELSE Ok([i \in DOMAIN rs |-> rs[i].value])

(***************************************************************************)
(* Python sequence primitives                                              *)
(***************************************************************************)
Min(a, b) == IF a < b THEN a ELSE b

\* s[a:b] for 0 <= a, 0 <= b: clamped to the sequence, never an error
Slice(s, a, b) == SubSeq(s, Min(a, Len(s)) + 1, Min(b, Len(s)))

\* s[i] for a 0-based index i >= 0 that is inside s
At(s, i) == s[i + 1]

IsByte(b) == b \in 0..255

AllBytes(s) == \A i \in 1..Len(s) : IsByte(s[i])

\* bytes.decode() in strict mode: whether the bytes are well-formed UTF-8
RECURSIVE Utf8Valid(_)
Utf8Valid(s) ==
    IF s = <<>> THEN TRUE
    ELSE LET b == s[1]
             n == Len(s)
             Cont(i) == i <= n /\ s[i] \in 128..191
             Rest(k) == Utf8Valid(SubSeq(s, k + 1, n))
         IN  IF b <= 127 THEN Rest(1)
             ELSE IF b \in 194..223 THEN Cont(2) /\ Rest(2)
             ELSE IF b = 224 THEN n >= 2 /\ s[2] \in 160..191 /\ Cont(3) /\ Rest(3)
             ELSE IF b = 237 THEN n >= 2 /\ s[2] \in 128..159 /\ Cont(3) /\ Rest(3)
             ELSE IF b \in 225..239 THEN Cont(2) /\ Cont(3) /\ Rest(3)
             ELSE IF b = 240
                  THEN n >= 2 /\ s[2] \in 144..191 /\ Cont(3) /\ Cont(4) /\ Rest(4)
             ELSE IF b \in 241..243 THEN Cont(2) /\ Cont(3) /\ Cont(4) /\ Rest(4)
             ELSE IF b = 244
                  THEN n >= 2 /\ s[2] \in 128..143 /\ Cont(3) /\ Cont(4) /\ Rest(4)
             ELSE FALSE

(***************************************************************************)
(* utils.py                                                                *)
(***************************************************************************)
\* a plausible slip: the high nibble shifted by 3 bits instead of 4
nibbles_to_int_shift3(c1, c2) == c1 * 8 + c2

nibbles_to_int(c1, c2) == c1 * 16 + c2

\* a plausible slip: low nibble first
int_to_nibbles_swapped(b) == <<b % 16, b \div 16>>

int_to_nibbles(b) == <<b \div 16, b % 16>>

short_to_bytes(b) ==
    IF IsByte(b \div 256)
    THEN Ok(<<b \div 256, b % 256>>)
    ELSE Raise("ValueError", "short_to_bytes")

Fingerprint == <<240, 0, 0, 27, 11>>

\* [nibble for i in raw for nibble in int_to_nibbles(i)]
Nibbles(raw) ==
    [k \in 1..(2 * Len(raw)) |->
        int_to_nibbles(raw[(k + 1) \div 2])[IF k % 2 = 1 THEN 1 ELSE 2]]

pack_sysex(raw, global_channel) ==
    IF ~IsByte(global_channel)
    THEN Raise("ValueError", "pack_sysex")
    ELSE Ok(Fingerprint \o <<global_channel>> \o <<4>> \o Nibbles(raw) \o <<247>>)

\* the pairs data[i], data[i + 1] for i in range(start, stop, 2)
Recombine(data, i, stop) ==
    [k \in 1..((stop - i + 1) \div 2) |->
        nibbles_to_int(At(data, i + 2 * (k - 1)), At(data, i + 2 * (k - 1) + 1))]

\* a plausible slip: the footer checked before the command byte
unpack_sysex_footer_first(data) ==
    IF Slice(data, 0, 5) # Fingerprint
    THEN IF Utf8Valid(Slice(data, 0, 5))
         THEN Raise("UnsupportedFormatError", "fingerprint")
         ELSE Raise("UnicodeDecodeError", "fingerprint")
    ELSE IF Len(data) < 7 THEN Raise("IndexError", "command")
    ELSE IF data[Len(data)] # 247 THEN Raise("UnsupportedFormatError", "footer")
    ELSE IF At(data, 6) = 1 THEN Raise("UnsupportedFormatError", "all_presets")
    ELSE IF At(data, 6) # 4 THEN Raise("UnsupportedFormatError", "not_buffer")
    ELSE Ok(Recombine(data, 7, Len(data) - 1))

unpack_sysex(data) ==
    IF Slice(data, 0, 5) # Fingerprint
    THEN IF Utf8Valid(Slice(data, 0, 5))
         THEN Raise("UnsupportedFormatError", "fingerprint")
         ELSE Raise("UnicodeDecodeError", "fingerprint")
    ELSE IF Len(data) < 7 THEN Raise("IndexError", "command")
    ELSE IF At(data, 6) = 1 THEN Raise("UnsupportedFormatError", "all_presets")
    ELSE IF At(data, 6) # 4 THEN Raise("UnsupportedFormatError", "not_buffer")
    ELSE IF data[Len(data)] # 247 THEN Raise("UnsupportedFormatError", "footer")
    ELSE Ok(Recombine(data, 7, Len(data) - 1))

(***************************************************************************)
(* The framer's inputs                                                     *)
(***************************************************************************)
MaxPayloadLen == 2
MaxNibbles == 2

RECURSIVE SeqsUpTo(_, _)
SeqsUpTo(S, n) ==
    IF n = 0 THEN {<<>>}
    ELSE LET P == SeqsUpTo(S, n - 1)
         IN  P \cup {Append(p, x) : p \in {q \in P : Len(q) = n - 1}, x \in S}

PayloadByteSample == {0, 1, 15, 16, 127, 128, 240, 255}

Payloads == {<<b>> : b \in 0..255} \cup SeqsUpTo(PayloadByteSample, MaxPayloadLen)

ChannelSample == {0, 1, 15, 127, 255, 256}

HeaderSample ==
    { Fingerprint,
      <<240, 0, 0, 27, 12>>,       \* another model id: not UTF-8
      <<240, 65, 16, 0, 11>>,      \* another vendor: not UTF-8
      <<65, 66, 67, 68, 69>>,      \* ASCII
      <<0, 0, 0, 27, 11>>,         \* ASCII control characters
      <<240, 144, 128, 128, 11>>,  \* one 4-byte UTF-8 character, then ASCII
      <<195, 169, 0, 27, 11>> }    \* one 2-byte UTF-8 character, then ASCII

WireByteSample == {0, 7, 15, 200}

WireInputs ==
    { h \o <<ch, cmd>> \o body \o foot :
        h \in HeaderSample, ch \in {0, 5}, cmd \in {0, 1, 4, 5},
        body \in SeqsUpTo(WireByteSample, MaxNibbles),
        foot \in {<<>>, <<247>>, <<0>>} }
    \cup { SubSeq(Fingerprint, 1, k) : k \in 0..5 }
    \cup { Fingerprint \o <<0>>, <<240, 0>>, <<65>> }

(***************************************************************************)
(* The framer as a state machine: pack, then unpack what was packed; or    *)
(* unpack given bytes.                                                     *)
(***************************************************************************)
NoResult == Raise("", "")

\* a component that is not running
FramerIdle ==
    /\ fr_pc = "idle" /\ fr_src = "" /\ fr_raw = <<>> /\ fr_chan = 0
    /\ fr_wire = <<>> /\ fr_res = NoResult

BitmapIdle ==
    bm_pc = "idle" /\ bm_ids = <<>> /\ bm_rec = NoResult /\ bm_back = <<>>

ScanIdle ==
    /\ sc_pc = "idle" /\ sc_raw = <<>> /\ sc_data = <<>> /\ sc_st = <<>>
    /\ sc_err = NoResult

CodecIdle ==
    /\ cd_pc = "idle" /\ cd_src = "" /\ cd_dump = <<>> /\ cd_doc = NoResult
    /\ cd_wire = NoResult /\ cd_patch = NoResult
    /\ cd_out = NoResult /\ cd_back = NoResult

RecordIdle ==
    /\ rc_pc = "idle" /\ rc_section = "" /\ rc_item = <<>> /\ rc_data = <<>>
    /\ rc_rec = NoResult /\ rc_dict = NoResult

InvocationsIdle ==
    /\ in_kind = "" /\ in_input = <<>> /\ in_tables = <<>> /\ in_pc = <<>>
    /\ in_local = <<>> /\ in_records = <<>> /\ in_out = <<>>

InitFramer ==
    /\ BitmapIdle /\ ScanIdle /\ CodecIdle /\ RecordIdle /\ InvocationsIdle
    /\ fr_res = NoResult
    /\ \/ /\ fr_pc = "to_pack"
          /\ fr_src = "pack"
          /\ fr_raw \in Payloads
          /\ fr_chan \in ChannelSample
          /\ fr_wire = <<>>
       \/ /\ fr_pc = "to_unpack"
          /\ fr_src = "input"
          /\ fr_raw = <<>>
          /\ fr_chan = 0
          /\ fr_wire \in WireInputs

PackSysex ==
    /\ fr_pc = "to_pack"
    /\ LET r == pack_sysex(fr_raw, fr_chan)
       IN  IF IsOk(r)
           THEN fr_wire' = r.value /\ fr_pc' = "to_unpack" /\ fr_res' = fr_res
           ELSE fr_wire' = fr_wire /\ fr_pc' = "done" /\ fr_res' = r
    /\ UNCHANGED <<fr_src, fr_raw, fr_chan, bmVars, scVars, cdVars, rcVars, inVars>>

UnpackSysex ==
    /\ fr_pc = "to_unpack"
    /\ fr_res' = unpack_sysex(fr_wire)
    /\ fr_pc' = "done"
    /\ UNCHANGED <<fr_src, fr_raw, fr_chan, fr_wire, bmVars, scVars, cdVars, rcVars, inVars>>

NextFramer == PackSysex \/ UnpackSysex

SpecFramer == InitFramer /\ [][NextFramer]_vars

(***************************************************************************)
(* Claims about the framer                                                 *)
(***************************************************************************)
Unpacked == fr_pc = "done" /\ fr_res # NoResult /\ fr_res.at # "pack_sysex"

\* C4: every input (long enough to hold a command byte) whose first 5 bytes
\* are not the fingerprint, whose command byte is not 04 or whose last byte
\* is not F7 fails with UnsupportedFormatError and yields no payload; a
\* payload is returned only when all three checks pass.
C4_FramerRejection ==
    (Unpacked /\ fr_src = "input" /\ Len(fr_wire) >= 7) =>
        LET bad == \/ Slice(fr_wire, 0, 5) # Fingerprint
                   \/ At(fr_wire, 6) # 4
                   \/ fr_wire[Len(fr_wire)] # 247
        IN  /\ bad => (fr_res.exc = "UnsupportedFormatError" /\ fr_res.value = <<>>)
            /\ IsOk(fr_res) => ~bad

\* C5: a dump carrying the fingerprint and the command byte 01 always fails
\* at the all-presets check, whatever follows the command byte (footer or
\* not), and nothing is recombined.
C5_AllPresetsRejected ==
    (Unpacked /\ Slice(fr_wire, 0, 5) = Fingerprint /\ Len(fr_wire) >= 7
              /\ At(fr_wire, 6) = 1) =>
        /\ fr_res.exc = "UnsupportedFormatError"
        /\ fr_res.at = "all_presets"
        /\ fr_res.value = <<>>

C5_Witness ==
    /\ Unpacked
    /\ Slice(fr_wire, 0, 5) = Fingerprint
    /\ Len(fr_wire) >= 10
    /\ At(fr_wire, 6) = 1
    /\ fr_wire[Len(fr_wire)] # 247
    /\ fr_res.at = "all_presets"

\* C6: pack_sysex(payload, channel) is F0 00 00 1B 0B, channel, 04, then
\* for the k-th payload byte b the two bytes b >> 4 and b & 0x0F, then F7:
\* 2 * len(payload) + 8 bytes, every one between header and footer below 16.
C6_PackWireFormat ==
    (fr_src = "pack" /\ fr_pc # "to_pack" /\ IsByte(fr_chan)) =>
        LET n == Len(fr_raw) IN
        /\ Len(fr_wire) = 2 * n + 8
        /\ SubSeq(fr_wire, 1, 5) = <<240, 0, 0, 27, 11>>
        /\ fr_wire[6] = fr_chan
        /\ fr_wire[7] = 4
        /\ \A k \in 1..n :
              /\ fr_wire[7 + 2 * k - 1] = fr_raw[k] \div 16
              /\ fr_wire[7 + 2 * k] = fr_raw[k] % 16
        /\ \A i \in 8..(2 * n + 7) : fr_wire[i] < 16
        /\ fr_wire[2 * n + 8] = 247

C6_Witness ==
    /\ fr_src = "pack"
    /\ fr_pc = "to_unpack"
    /\ fr_raw = <<240, 127>>
    /\ fr_chan = 15
    /\ fr_wire = <<240, 0, 0, 27, 11, 15, 4, 15, 0, 7, 15, 247>>

\* C7: unpack_sysex(pack_sysex(p, channel)) = p for every payload p and
\* every channel byte.
C7_FramerRoundTrip ==
    (fr_src = "pack" /\ fr_pc = "done" /\ IsByte(fr_chan)) =>
        /\ IsOk(fr_res)
        /\ fr_res.value = fr_raw

C7_Witness ==
    /\ fr_src = "pack"
    /\ fr_pc = "done"
    /\ IsOk(fr_res)
    /\ fr_raw = <<255, 16>>
    /\ fr_res.value = <<255, 16>>

(***************************************************************************)
(* data.py: the byte cursor                                                *)
(***************************************************************************)
\* self.data[i]
Idx(data, i) ==
    IF i < Len(data) THEN Ok(data[i + 1]) ELSE Raise("IndexError", "index")

\* Data.short: struct.unpack(">h", self[offset:offset + 2])[0]
DataShort(data, offset) ==
    LET s == Slice(data, offset, offset + 2)
    IN  IF Len(s) # 2 THEN Raise("struct.error", "short")
        ELSE LET u == s[1] * 256 + s[2]
             IN  Ok(IF u >= 32768 THEN u - 65536 ELSE u)

\* Data.bytearray: Data(self[offset:offset + length])
DataBytearray(data, offset, length) == Slice(data, offset, offset + length)

Printable(c) == ~(c < 32 \/ 126 < c)

\* a plausible slip: a byte that is not text is skipped
DataString_skipping(data, offset, length) ==
    Ok(SelectSeq(DataBytearray(data, offset, length), Printable))

\* Data.string; a str is the sequence of its code points
DataString(data, offset, length) ==
    IF length = 0 THEN Ok(<<>>)
    ELSE LET s == DataBytearray(data, offset, length)
         IN  IF \E i \in 1..Len(s) : ~Printable(s[i])
             THEN Raise("UnsupportedFormatError", "string")
             ELSE Ok(s)

\* data_factory: the arguments appended in order; every int must be a byte
RECURSIVE Flat(_)
Flat(parts) == IF parts = <<>> THEN <<>> ELSE Head(parts) \o Flat(Tail(parts))

data_factory(parts) ==
    IF AllBytes(Flat(parts)) THEN Ok(Flat(parts))
    ELSE Raise("ValueError", "data_factory")

(***************************************************************************)
(* record.py: the lookup tables                                            *)
(***************************************************************************)
Faders == "faders"
Cvs == "cvs"
Buttons == "buttons"
DataWheelSection == "data_wheel"
SetupSection == "setup"

fader_types == <<"Disabled", "CC", "Master", "String">>

button_types ==
    <<"Disabled", "Mute", "Solo", "ProgramChange", "NoteOnOff", "ButtonString",
      "StringPressRelease", "StringToggle", "SendFader", "SendScene">>

data_wheel_types == <<"Disabled", "DataWheel">>

setup_types == <<"Disabled", "Setup">>

\* the table of a section: tag k is element k + 1
SectionTypes(section) ==
    CASE section \in {Faders, Cvs} -> fader_types
      [] section = Buttons -> button_types
      [] section = DataWheelSection -> data_wheel_types
      [] section = SetupSection -> setup_types

\* _type of each class
TypeTag(cls) ==
    CASE cls = "Disabled" -> 0
      [] cls \in {"CC", "Mute", "DataWheel", "Setup"} -> 1
      [] cls \in {"Master", "Solo"} -> 2
      [] cls \in {"String", "ProgramChange"} -> 3
      [] cls = "NoteOnOff" -> 4
      [] cls = "ButtonString" -> 5
      [] cls = "StringPressRelease" -> 6
      [] cls = "StringToggle" -> 7
      [] cls = "SendFader" -> 8
      [] cls = "SendScene" -> 9

param_format_lookup ==
    <<"Single byte", "2Byte,7Bits,hi->lo", "2Byte,7Bits,lo->hi",
      "3Byte,7Bits,lo->hi", "3Byte,7Bits,hi->lo", "2Byte, Nibs,hi->lo",
      "2Byte, Nibs,lo->hi", "3Byte, Nibs,hi->lo", "3Byte, Nibs,lo->hi",
      "4Byte, Nibs,hi->lo", "4Byte, Nibs,lo->hi", "2Byte,BCD Nibs,hi->lo",
      "2Byte,BCD Nibs,lo-hi">>

\* wheel_lookup: key k is element k + 1
wheel_lookup ==
    <<"Fader 1", "Fader 2", "Fader 3", "Fader 4", "Fader 5", "Fader 6",
      "Fader 7", "Fader 8", "Fader 9", "Fader 10", "Fader 11", "Fader 12",
      "Fader 13", "Fader 14", "Fader 15", "Fader 16", "CV 1", "CV 2",
      "Last fader">>

\* a plausible slip: a key outside the table wraps round to an entry
Lookup_wrapping(table, key, lo) == Ok(table[((key - lo) % Len(table)) + 1])

\* a dict lookup table[key] on a table whose keys are lo .. lo + len - 1
Lookup(table, key, lo) ==
    IF key - lo + 1 \in 1..Len(table) THEN Ok(table[key - lo + 1])
    ELSE Raise("KeyError", "lookup")

\* {v: k for k, v in table.items()}[value]
Inversion(table, value, lo) ==
    IF \E k \in 1..Len(table) : table[k] = value
    THEN Ok((CHOOSE k \in 1..Len(table) : table[k] = value) + lo - 1)
    ELSE Raise("KeyError", "inversion")

(***************************************************************************)
(* utils.bitmap_ids                                                        *)
(***************************************************************************)
Bit(a, i) == (a \div (2 ^ i)) % 2

\* [i + base for i in range(k, 8) if 0x1 & a >> i]
RECURSIVE BitIds(_, _, _)
BitIds(a, k, base) ==
    IF k >= 8 THEN <<>>
    ELSE (IF Bit(a, k) = 1 THEN <<k + base>> ELSE <<>>) \o BitIds(a, k + 1, base)

\* a plausible slip: the high byte numbered from 8
bitmap_ids_high8(a, b) == BitIds(a, 0, 1) \o BitIds(b, 0, 8)

bitmap_ids(a, b) == BitIds(a, 0, 1) \o BitIds(b, 0, 9)

(***************************************************************************)
(* record.py: the decode accessors.  A record is [cls, section, data].     *)
(***************************************************************************)
Record(cls, section, data) == [cls |-> cls, section |-> section, data |-> data]

\* a plausible slip: the name length taken from the low nibble
NameLength_low_nibble(d) == int_to_nibbles(d[1])[2]

\* Record._name_length: int_to_nibbles(self.data[0])[0]
NameLength(d) == int_to_nibbles(d[1])[1]

\* a plausible slip: the length byte of the second blob not counted
SecondOffset_no_length(d) == Then(Idx(d, 1), LAMBDA l : Ok(l + 2))

\* _release_offset / _sysex2_offset: the first blob's length + 3
SecondOffset(d) == Then(Idx(d, 1), LAMBDA l : Ok(l + 3))

\* _release_length / _sysex2_length: self.data[second offset - 1]
SecondLength(d) == Then(SecondOffset(d), LAMBDA o : Idx(d, o - 1))

\* a plausible slip: every variant read with the base class's name offset
NameOffset_base(cls, d) == Ok(IF NameLength(d) # 0 THEN 6 ELSE 0)

\* _name_offset of each class
NameOffset(cls, d) ==
    CASE cls \in {"Disabled", "DataWheel", "Setup"} -> Ok(0)
      [] cls = "CC" -> Ok(IF NameLength(d) # 0 THEN 6 ELSE 0)
      [] cls \in {"Master", "NoteOnOff"} -> Ok(4)
      [] cls = "ProgramChange" -> Ok(3)
      [] cls \in {"Mute", "Solo", "SendFader", "SendScene"} -> Ok(1)
      [] cls = "String" -> Then(Idx(d, 6), LAMBDA l : Ok(7 + l))
      [] cls = "ButtonString" -> Then(Idx(d, 1), LAMBDA l : Ok(2 + l))
      [] cls \in {"StringPressRelease", "StringToggle"} ->
            Then(SecondOffset(d), LAMBDA o :
                Then(SecondLength(d), LAMBDA l : Ok(o + l)))

\* Record.name
RecordName(cls, d) ==
    Then(NameOffset(cls, d), LAMBDA o : DataString(d, o, NameLength(d)))

\* a plausible slip: the blob read as text, like the name
Blob_as_text(d, lenAt) ==
    Then(Idx(d, lenAt), LAMBDA l : DataString(d, lenAt + 1, l))

\* the blob whose 1-byte length is at lenAt and whose bytes start at lenAt + 1
Blob(d, lenAt) ==
    Then(Idx(d, lenAt), LAMBDA l : Ok(DataBytearray(d, lenAt + 1, l)))

\* the second blob of StringPressRelease / StringToggle
SecondBlob(d) ==
    Then(SecondOffset(d), LAMBDA o :
        Then(SecondLength(d), LAMBDA l : Ok(DataBytearray(d, o, l))))

\* Setup.channels: folded() and seven_bit()
folded(value) ==
    IF value >= 128 THEN [m |-> FALSE, v |-> value - 128]
    ELSE [m |-> TRUE, v |-> value + 1]

seven_bit(value) ==
    IF value >= 128 THEN [off |-> FALSE, v |-> value - 128]
    ELSE [off |-> TRUE, v |-> 0]

\* Setup._midi_channels
MidiChannels(d) ==
    IF Len(d) < 3 THEN Raise("IndexError", "index")
    ELSE Ok(bitmap_ids(d[2], d[3]))

\* Setup.channels: the dict, in insertion order, as a list of entries
SetupChannels(d) ==
    Then(MidiChannels(d), LAMBDA mc :
        IF Len(mc) > 0 /\ Len(d) < 3 + 3 * Len(mc)
        THEN Raise("IndexError", "index")
        ELSE Ok([k \in 1..Len(mc) |->
                    [ch |-> mc[k],
                     bank |-> folded(At(d, 3 * k)),
                     program |-> seven_bit(At(d, 3 * k + 1)),
                     volume |-> seven_bit(At(d, 3 * k + 2))]]))

\* Setup._scene_offset
SceneOffset(d) == Then(MidiChannels(d), LAMBDA mc : Ok(3 + Len(mc) * 3))

\* Setup._has_scene
HasScene(d) ==
    Then(SceneOffset(d), LAMBDA o : Then(Idx(d, o), LAMBDA b : Ok(b = 254)))

\* Setup.scene: <<>> for None, <<n>> for the scene number n
SetupScene(d) ==
    Then(HasScene(d), LAMBDA h :
        IF ~h THEN Ok(<<>>)
        ELSE Then(SceneOffset(d), LAMBDA o :
                 Then(Idx(d, o + 1), LAMBDA b : Ok(<<b>>))))

\* Setup._sysex_offset
SetupSysexOffset(d) ==
    Then(HasScene(d), LAMBDA h :
        Then(SceneOffset(d), LAMBDA o : Ok(o + (IF h THEN 2 ELSE 0))))

\* Setup.sysex
SetupSysex(d) == Then(SetupSysexOffset(d), LAMBDA o : Blob(d, o))

\* the value of one public property of a record
Prop(cls, d, prop) ==
    CASE prop = "name" -> RecordName(cls, d)
      [] cls = "CC" /\ prop = "min" -> Idx(d, 1)
      [] cls = "CC" /\ prop = "max" -> Idx(d, 2)
      [] cls = "CC" /\ prop = "channel" -> Idx(d, 3)
      [] cls = "CC" /\ prop = "cc" -> Idx(d, 4)
      [] cls = "CC" /\ prop = "mode" -> Idx(d, 5)
      [] cls = "Master" /\ prop = "faders" ->
            IF Len(d) < 3 THEN Raise("IndexError", "index")
            ELSE Ok(bitmap_ids(d[2], d[3]))
      [] cls = "Master" /\ prop = "wut" -> Idx(d, 3)
      [] cls = "String" /\ prop = "param_format" ->
            Then(Idx(d, 1), LAMBDA b : Lookup(param_format_lookup, b, 1))
      [] cls = "String" /\ prop = "sysex" -> Blob(d, 6)
      [] cls = "String" /\ prop = "min" -> DataShort(d, 2)
      [] cls = "String" /\ prop = "max" -> DataShort(d, 4)
      [] cls = "ProgramChange" /\ prop = "channel" -> Idx(d, 1)
      [] cls = "ProgramChange" /\ prop = "program" -> Idx(d, 2)
      [] cls = "NoteOnOff" /\ prop = "channel" -> Idx(d, 1)
      [] cls = "NoteOnOff" /\ prop = "note" -> Idx(d, 2)
      [] cls = "NoteOnOff" /\ prop = "velocity" -> Idx(d, 3)
      [] cls = "ButtonString" /\ prop = "sysex" -> Blob(d, 1)
      [] cls = "StringPressRelease" /\ prop = "press" -> Blob(d, 1)
      [] cls = "StringPressRelease" /\ prop = "release" -> SecondBlob(d)
      [] cls = "StringToggle" /\ prop = "sysex1" -> Blob(d, 1)
      [] cls = "StringToggle" /\ prop = "sysex2" -> SecondBlob(d)
      [] cls = "SendScene" /\ prop = "value" -> Idx(d, 1)
      [] cls = "DataWheel" /\ prop = "mapped_to" ->
            Then(Idx(d, 1), LAMBDA b : Lookup(wheel_lookup, b, 0))
      [] cls = "Setup" /\ prop = "channels" -> SetupChannels(d)
      [] cls = "Setup" /\ prop = "scene" -> SetupScene(d)
      [] cls = "Setup" /\ prop = "sysex" -> SetupSysex(d)

\* Record.fields() of each class, in the order of dir(self)
RecordFields(cls) ==
    CASE cls = "CC" -> <<"cc", "channel", "max", "min", "mode", "name">>
      [] cls = "Master" -> <<"faders", "name", "wut">>
      [] cls = "String" -> <<"max", "min", "name", "param_format", "sysex">>
      [] cls = "ProgramChange" -> <<"channel", "name", "program">>
      [] cls = "NoteOnOff" -> <<"channel", "name", "note", "velocity">>
      [] cls = "ButtonString" -> <<"name", "sysex">>
      [] cls = "StringPressRelease" -> <<"name", "press", "release">>
      [] cls = "StringToggle" -> <<"name", "sysex1", "sysex2">>
      [] cls = "SendScene" -> <<"name", "value">>
      [] cls = "DataWheel" -> <<"mapped_to", "name">>
      [] cls = "Setup" -> <<"channels", "name", "scene", "sysex">>
      [] OTHER -> <<"name">>

BlobFields == {"sysex", "press", "release", "sysex1", "sysex2"}

HexDigit(n) == IF n < 10 THEN 48 + n ELSE 87 + n

\* bytearray.hex(): two lowercase hexadecimal digits per byte
RECURSIVE BytesToHex(_)
BytesToHex(b) ==
    IF b = <<>> THEN <<>>
    ELSE <<HexDigit(Head(b) \div 16), HexDigit(Head(b) % 16)>> \o BytesToHex(Tail(b))

\* Record.to_dict, with BytesToHexEncoder applied to the blobs (to_json)
DictOf(cls, fs, vals) ==
    LET bad == {i \in 1..Len(fs) : ~IsOk(vals[i])}
        idx(f) == CHOOSE i \in 1..Len(fs) : fs[i] = f
        skipped(i) ==
            \/ fs[i] \in {"name", "channels"} /\ vals[i].value = <<>>
            \/ fs[i] = "scene" /\ vals[i].value = <<>>
        kept == {fs[i] : i \in {j \in 1..Len(fs) : ~skipped(j)}}
        out(f) ==
            IF f = "type" THEN cls
            ELSE IF f = "scene" THEN vals[idx(f)].value[1]
            ELSE IF f \in BlobFields THEN BytesToHex(vals[idx(f)].value)
            ELSE vals[idx(f)].value
    IN  IF bad # {}
        THEN vals[CHOOSE i \in bad : \A j \in bad : i <= j]
        ELSE Ok([f \in kept \cup {"type"} |-> out(f)])

\* getattr(self, field) for field in self.fields()
PropValues(cls, d, fs) == [i \in 1..Len(fs) |-> Prop(cls, d, fs[i])]

RecordToDict(rec) ==
    DictOf(rec.cls, RecordFields(rec.cls),
           PropValues(rec.cls, rec.data, RecordFields(rec.cls)))

(***************************************************************************)
(* record.py: pack.  A document item is a record holding the item's keys;  *)
(* a str is the sequence of its code points.                               *)
(***************************************************************************)
\* str.encode(): UTF-8
RECURSIVE Utf8Encode(_)
Utf8Encode(str) ==
    IF str = <<>> THEN <<>>
    ELSE (IF Head(str) < 128 THEN <<Head(str)>>
          ELSE <<192 + (Head(str) \div 64), 128 + (Head(str) % 64)>>)
         \o Utf8Encode(Tail(str))

HexValue(c) ==
    IF c \in 48..57 THEN c - 48
    ELSE IF c \in 97..102 THEN c - 87
    ELSE c - 55

IsHexDigit(c) == c \in (48..57) \cup (97..102) \cup (65..70)

AsciiSpace == {9, 10, 11, 12, 13, 32}

\* bytes.fromhex: pairs of hexadecimal digits, white space between pairs skipped
RECURSIVE FromHexBytes(_)
FromHexBytes(str) ==
    IF str = <<>> THEN <<>>
    ELSE IF Head(str) \in AsciiSpace THEN FromHexBytes(Tail(str))
    ELSE <<HexValue(str[1]) * 16 + HexValue(str[2])>>
         \o FromHexBytes(SubSeq(str, 3, Len(str)))

RECURSIVE HexWellFormed(_)
HexWellFormed(str) ==
    IF str = <<>> THEN TRUE
    ELSE IF Head(str) \in AsciiSpace THEN HexWellFormed(Tail(str))
    ELSE /\ Len(str) >= 2
         /\ IsHexDigit(str[1])
         /\ IsHexDigit(str[2])
         /\ HexWellFormed(SubSeq(str, 3, Len(str)))

FromHex(str) ==
    IF HexWellFormed(str) THEN Ok(FromHexBytes(str))
    ELSE Raise("ValueError", "fromhex")

\* struct.pack(">h", v)
PackShort(v) ==
    IF v \in (-32768)..32767
    THEN LET u == IF v < 0 THEN v + 65536 ELSE v
         IN  Ok(<<u \div 256, u % 256>>)
    ELSE Raise("struct.error", "pack")

\* the keys the *Fields dataclass of a class requires and those it accepts
RequiredKeys(cls) ==
    CASE cls = "CC" -> {"type", "min", "max", "channel", "cc", "mode"}
      [] cls = "Master" -> {"type", "faders", "wut"}
      [] cls = "String" -> {"type", "sysex", "param_format", "min", "max"}
      [] cls = "ProgramChange" -> {"type", "channel", "program"}
      [] cls = "NoteOnOff" -> {"type", "channel", "note", "velocity"}
      [] cls = "ButtonString" -> {"type", "sysex"}
      [] cls = "StringPressRelease" -> {"type", "press", "release"}
      [] cls = "StringToggle" -> {"type", "sysex1", "sysex2"}
      [] cls = "SendScene" -> {"type", "value"}
      [] cls = "DataWheel" -> {"type", "mapped_to"}
      [] OTHER -> {"type"}

OptionalKeys(cls) ==
    CASE cls = "DataWheel" -> {}
      [] cls = "Setup" -> {"name", "channels", "scene", "sysex"}
      [] OTHER -> {"name"}

FieldsOk(cls, item) ==
    /\ RequiredKeys(cls) \subseteq DOMAIN item
    /\ DOMAIN item \subseteq RequiredKeys(cls) \cup OptionalKeys(cls)

\* a plausible slip: an empty name written as one space
ItemName_padded(item) ==
    IF "name" \in DOMAIN item /\ item.name # <<>> THEN item.name ELSE <<32>>

\* NamedFields.name, "" by default
ItemName(item) == IF "name" \in DOMAIN item THEN item.name ELSE <<>>

\* the first byte written by pack: nibbles_to_int(len(name), cls._type)
FirstByte(cls, item) == nibbles_to_int(Len(ItemName(item)), TypeTag(cls))

\* sum(2 ** (v - 1) for v in ids)
RECURSIVE BitmapSum(_)
BitmapSum(ids) ==
    IF ids = <<>> THEN 0 ELSE 2 ^ (Head(ids) - 1) + BitmapSum(Tail(ids))

\* the two bitmap bytes as pack writes them: val_data[1], val_data[0]
BitmapBytes_swapped(ids) ==
    IF \E i \in 1..Len(ids) : ids[i] < 1 THEN Raise("TypeError", "bitmap")
    ELSE Then(short_to_bytes(BitmapSum(ids)), LAMBDA sb : Ok(<<sb[1], sb[2]>>))

BitmapBytes(ids) ==
    IF \E i \in 1..Len(ids) : ids[i] < 1 THEN Raise("TypeError", "bitmap")
    ELSE Then(short_to_bytes(BitmapSum(ids)), LAMBDA sb : Ok(<<sb[2], sb[1]>>))

\* Setup.pack: seven_bit_reverse and folded_reverse
seven_bit_reverse(value) == IF value.off THEN 127 ELSE value.v + 128

\* a plausible slip: an "m" bank written without the offset of one
folded_reverse_unshifted(value) == IF value.m THEN value.v ELSE value.v + 128

folded_reverse(value) == IF value.m THEN value.v - 1 ELSE value.v + 128

RECURSIVE ChannelTriples(_)
ChannelTriples(channels) ==
    IF channels = <<>> THEN <<>>
    ELSE <<folded_reverse(Head(channels).bank),
           seven_bit_reverse(Head(channels).program),
           seven_bit_reverse(Head(channels).volume)>>
         \o ChannelTriples(Tail(channels))

\* a looked-up key as the one byte data_factory is handed
KeyByte(r) == Then(r, LAMBDA k : Ok(<<k>>))

\* the first of the results that is an error, else Ok of the joined values
Joined(rs) == Then(Collected(rs), LAMBDA parts : Ok(Flat(parts)))

\* a blob of a document item, as pack writes it: its length, then its bytes
PackedBlob(hex) == Then(FromHex(hex), LAMBDA b : Ok(<<Len(b)>> \o b))

\* Setup.pack: the bytes after the first one
ItemChannels(item) == IF "channels" \in DOMAIN item THEN item.channels ELSE <<>>

\* the channel bitmap and the bank, program and volume bytes
ChannelPart(chans) ==
    IF chans # <<>>
    THEN Then(BitmapBytes([k \in 1..Len(chans) |-> chans[k].ch]),
              LAMBDA bm : Ok(bm \o ChannelTriples(chans)))
    ELSE Ok(<<0, 0>>)

\* if scene: 0xFE and the scene number
ScenePart(item) ==
    IF "scene" \in DOMAIN item /\ item.scene # 0
    THEN Ok(<<254, item.scene>>)
    ELSE Ok(<<>>)

\* if sysex: its length and its bytes, else 0
SysexPart(item) ==
    IF "sysex" \in DOMAIN item /\ item.sysex # <<>>
    THEN PackedBlob(item.sysex)
    ELSE Ok(<<0>>)

SetupBody(item) ==
    Joined(<<ChannelPart(ItemChannels(item)), ScenePart(item), SysexPart(item)>>)

\* the arguments of data_factory in cls.pack, after the first byte
NameBytes(item) == Ok(Utf8Encode(ItemName(item)))

PackBody(cls, item) ==
    CASE cls = "CC" ->
           Joined(<<Ok(<<item.min, item.max, item.channel, item.cc, item.mode>>),
                    NameBytes(item)>>)
      [] cls = "Master" ->
           Joined(<<BitmapBytes(item.faders), Ok(<<item.wut>>), NameBytes(item)>>)
      [] cls = "String" ->
           Then(FromHex(item.sysex), LAMBDA sx :
               Joined(<<KeyByte(Inversion(param_format_lookup, item.param_format, 1)),
                        PackShort(item.min), PackShort(item.max),
                        Ok(<<Len(sx)>>), Ok(sx), NameBytes(item)>>))
      [] cls \in {"Mute", "Solo", "SendFader"} -> NameBytes(item)
      [] cls = "ProgramChange" ->
           Joined(<<Ok(<<item.channel, item.program>>), NameBytes(item)>>)
      [] cls = "NoteOnOff" ->
           Joined(<<Ok(<<item.channel, item.note, item.velocity>>), NameBytes(item)>>)
      [] cls = "ButtonString" ->
           Joined(<<PackedBlob(item.sysex), NameBytes(item)>>)
      [] cls = "StringPressRelease" ->
           Joined(<<PackedBlob(item.press), PackedBlob(item.release),
                    NameBytes(item)>>)
      [] cls = "StringToggle" ->
           Joined(<<PackedBlob(item.sysex1), PackedBlob(item.sysex2),
                    NameBytes(item)>>)
      [] cls = "SendScene" -> Joined(<<Ok(<<item.value>>), NameBytes(item)>>)
      [] cls = "DataWheel" -> KeyByte(Inversion(wheel_lookup, item.mapped_to, 0))
      [] cls = "Setup" -> SetupBody(item)

\* cls.pack(section, **item)
Pack(cls, section, item) ==
    IF cls = "Disabled" THEN Ok(Record(cls, section, <<0>>))
    ELSE IF ~FieldsOk(cls, item) THEN Raise("TypeError", "fields")
    ELSE Then(PackBody(cls, item), LAMBDA body :
             Then(data_factory(<<<<IF cls = "DataWheel"
                                   THEN nibbles_to_int(0, TypeTag(cls))
                                   ELSE FirstByte(cls, item)>>, body>>),
                  LAMBDA data : Ok(Record(cls, section, data))))

(***************************************************************************)
(* patch.py: SysexPatch                                                    *)
(***************************************************************************)
\* Record.flatten: bytes([self.length()]) + self.data[: self.length()]
RecordFlatten(rec) ==
    IF IsByte(Len(rec.data)) THEN Ok(<<Len(rec.data)>> \o rec.data)
    ELSE Raise("ValueError", "flatten")

\* a plausible slip: the name and size fields not excluded from the length
Construct_whole_length(raw_data) ==
    Then(unpack_sysex(raw_data), LAMBDA u :
        IF ~AllBytes(u) THEN Raise("ValueError", "Data")
        ELSE Then(DataShort(u, 16), LAMBDA ds :
                 IF Len(u) # ds THEN Raise("ValueError", "size") ELSE Ok(u)))

\* SysexPatch.__init__, up to parse_records: Data(unpack_sysex(raw_data)) and
\* the check of the size field
Construct(raw_data) ==
    Then(unpack_sysex(raw_data), LAMBDA u :
        IF ~AllBytes(u) THEN Raise("ValueError", "Data")
        ELSE Then(DataShort(u, 16), LAMBDA ds :
                 IF Len(u) - (16 + 2) # ds THEN Raise("ValueError", "size")
                 ELSE Ok(u)))

\* SysexPatch.record_factory
\* the record of the class the type nibble of its first byte selects
TypedRecord(section, rdata) ==
    Then(Idx(rdata, 0), LAMBDA first :
        Then(Lookup(SectionTypes(section), int_to_nibbles(first)[2], 0),
             LAMBDA cls : Ok(Record(cls, section, rdata))))

record_factory(data, offset, section) ==
    Then(Idx(data, offset - 1), LAMBDA len :
        TypedRecord(section, DataBytearray(data, offset, len)))

\* a plausible slip: each section entered one record late
SectionFor_late(record_id, current_section) ==
    IF record_id = 18 THEN Cvs
    ELSE IF record_id = 20 THEN Buttons
    ELSE IF record_id = 36 THEN DataWheelSection
    ELSE IF record_id = 37 THEN SetupSection
    ELSE current_section

\* parse_records: the section of the record about to be read
SectionFor(record_id, current_section) ==
    IF record_id = 17 THEN Cvs
    ELSE IF record_id = 19 THEN Buttons
    ELSE IF record_id = 35 THEN DataWheelSection
    ELSE IF record_id = 36 THEN SetupSection
    ELSE current_section

\* the locals of parse_records before the loop
ScanStart ==
    [record_offset |-> 18, current_section |-> Faders, record_id |-> 1,
     records |-> <<>>, done |-> FALSE]

\* a plausible slip: the locals left as they were, the cursor not advanced
Advanced_stalled(st, section, rec, after, end) == st

\* one iteration of the loop of parse_records
\* the locals of parse_records after the record rec, which ends at after
Advanced(st, section, rec, after, end) ==
    [record_offset |-> after,
     current_section |-> section,
     record_id |-> IF after = end THEN st.record_id ELSE st.record_id + 1,
     records |-> Append(st.records, rec),
     done |-> after = end]

ScanIteration(data, st) ==
    Then(record_factory(data, st.record_offset + 1,
                        SectionFor(st.record_id, st.current_section)),
         LAMBDA rec :
             Ok(Advanced(st, SectionFor(st.record_id, st.current_section), rec,
                         st.record_offset + 1 + Len(rec.data), Len(data))))

\* parse_records: the loop run to its end
RECURSIVE ScanFrom(_, _)
ScanFrom(data, st) ==
    LET r == ScanIteration(data, st)
    IN  IF ~IsOk(r) THEN r
        ELSE IF r.value.done THEN Ok(r.value.records)
        ELSE ScanFrom(data, r.value)

parse_records(data) == ScanFrom(data, ScanStart)

\* SysexPatch(raw_data): [raw_data, data, records]
SysexPatch(raw_data) ==
    Then(Construct(raw_data), LAMBDA data :
        Then(parse_records(data), LAMBDA records :
            Ok([raw_data |-> raw_data, data |-> data, records |-> records])))

\* SysexPatch.name
PatchName(patch) == DataString(patch.data, 0, 16)

\* SysexPatch.global_channel
PatchChannel(patch) == At(patch.raw_data, 5)

PyWhitespace == {9, 10, 11, 12, 13, 28, 29, 30, 31, 32, 133, 160}

\* str.rstrip()
RECURSIVE Rstrip(_)
Rstrip(str) ==
    IF str # <<>> /\ str[Len(str)] \in PyWhitespace
    THEN Rstrip(SubSeq(str, 1, Len(str) - 1))
    ELSE str

\* bytes.ljust(16)
RECURSIVE Ljust16(_)
Ljust16(b) == IF Len(b) >= 16 THEN b ELSE Ljust16(Append(b, 32))

\* a plausible slip: every record handed to every section
InSection_unfiltered(records, section) == records

\* extract_sections: the records of a section, in order
InSection(records, section) == SelectSeq(records, LAMBDA r : r.section = section)

\* [r.to_dict() for r in records]
RecordDicts(records) == [i \in 1..Len(records) |-> RecordToDict(records[i])]

SectionDicts(records, section) == Collected(RecordDicts(InSection(records, section)))

\* __version__
FileVersion == "1.0.0"

\* SysexPatch.to_dict, blobs as hex strings (to_json)
\* the sections in the order to_dict builds them
DictOrder == <<Buttons, Cvs, DataWheelSection, Faders, SetupSection>>

DocOf(name, channel, dicts) ==
    Then(name, LAMBDA n :
        Then(Collected(dicts), LAMBDA ds :
            Ok([name |-> Rstrip(n),
                global_channel |-> channel,
                file_version |-> FileVersion,
                buttons |-> ds[1], cvs |-> ds[2], data_wheel |-> ds[3],
                faders |-> ds[4], setup |-> ds[5]])))

PatchToDict(patch) ==
    DocOf(PatchName(patch), PatchChannel(patch),
          [k \in 1..5 |-> SectionDicts(patch.records, DictOrder[k])])

\* SysexPatch.flatten
FlattenRecords(records) ==
    Joined([i \in 1..Len(records) |-> RecordFlatten(records[i])])

\* name, size and records of SysexPatch.flatten put together
Flattened(name, raw) ==
    Then(raw, LAMBDA r :
        Then(name, LAMBDA n :
            Then(short_to_bytes(Len(r)), LAMBDA size :
                Ok(Ljust16(Utf8Encode(n)) \o size \o r))))

PatchFlatten(patch) == Flattened(PatchName(patch), FlattenRecords(patch.records))

\* SysexPatch.to_raw_sysex
to_raw_sysex(patch) ==
    Then(PatchFlatten(patch), LAMBDA flat : pack_sysex(flat, PatchChannel(patch)))

(***************************************************************************)
(* patch.flatten_section and __init__.py                                   *)
(***************************************************************************)
\* section_lookup[section][str(item["type"])]
SectionClass(section, type) ==
    IF \E k \in 1..Len(SectionTypes(section)) : SectionTypes(section)[k] = type
    THEN Ok(type)
    ELSE Raise("KeyError", "section_lookup")

\* section_lookup[section][type].pack(section, **entry).flatten()
FlattenItem(section, item) ==
    Then(SectionClass(section, item.type), LAMBDA cls :
        Then(Pack(cls, section, item), LAMBDA rec : RecordFlatten(rec)))

flatten_section(section, items) ==
    Joined([i \in 1..Len(items) |-> FlattenItem(section, items[i])])

raw_to_sysex(name, global_channel, raw) ==
    Then(short_to_bytes(Len(raw)), LAMBDA raw_length :
        pack_sysex(Ljust16(Utf8Encode(name)) \o raw_length \o raw, global_channel))

\* a plausible slip: the sections concatenated in the order of the keyword
\* arguments
SectionsRaw_alphabetical(doc) ==
    Joined([k \in 1..5 |-> flatten_section(DictOrder[k], doc[DictOrder[k]])])

\* the concatenation of the five flatten_section calls
SectionOrder == <<Faders, Cvs, Buttons, DataWheelSection, SetupSection>>

SectionsRaw(doc) ==
    Joined([k \in 1..5 |-> flatten_section(SectionOrder[k], doc[SectionOrder[k]])])

\* a plausible slip: the file version looked at after the sections are built
EncodeWire_late_gate(doc) ==
    Then(SectionsRaw(doc), LAMBDA raw :
        IF doc.file_version # FileVersion THEN Raise("ValueError", "file_version")
        ELSE raw_to_sysex(doc.name, doc.global_channel, raw))

\* sections_to_sysex_patch up to the SysexPatch constructor: the bytes built
EncodeWire(doc) ==
    IF doc.file_version # FileVersion THEN Raise("ValueError", "file_version")
    ELSE Then(SectionsRaw(doc), LAMBDA raw :
             raw_to_sysex(doc.name, doc.global_channel, raw))

Constructed(w) == Then(w, LAMBDA raw_data : SysexPatch(raw_data))

sections_to_sysex_patch(doc) == Constructed(EncodeWire(doc))

\* decode: SysexPatch(d).to_dict()
Decode(raw_data) == Then(SysexPatch(raw_data), LAMBDA p : PatchToDict(p))

\* encode: sections_to_sysex_patch(**doc).to_raw_sysex()
RawOfPatch(p) == Then(p, LAMBDA patch : to_raw_sysex(patch))

Encode(doc) == RawOfPatch(sections_to_sysex_patch(doc))

(***************************************************************************)
(* The bitmap as a state machine: Master.pack of a list of ids, then       *)
(* Master.faders of the packed record.                                     *)
(***************************************************************************)
\* the elements of a set of numbers as an ascending list
RECURSIVE Ascending(_)
Ascending(S) ==
    IF S = {} THEN <<>>
    ELSE LET m == CHOOSE x \in S : \A y \in S : x <= y
         IN  <<m>> \o Ascending(S \ {m})

Range(seq) == {seq[i] : i \in 1..Len(seq)}

InitBitmap ==
    /\ FramerIdle /\ ScanIdle /\ CodecIdle /\ RecordIdle /\ InvocationsIdle
    /\ bm_pc = "to_pack"
    /\ bm_ids \in {Ascending(S) : S \in SUBSET (1..16)}
    /\ bm_rec = NoResult
    /\ bm_back = <<>>

MasterPack ==
    /\ bm_pc = "to_pack"
    /\ bm_rec' = Pack("Master", Faders, [type |-> "Master", faders |-> bm_ids, wut |-> 0])
    /\ bm_pc' = "to_decode"
    /\ UNCHANGED <<bm_ids, bm_back, frVars, scVars, cdVars, rcVars, inVars>>

MasterFaders ==
    /\ bm_pc = "to_decode"
    /\ IsOk(bm_rec)
    /\ bm_back' = Prop("Master", bm_rec.value.data, "faders").value
    /\ bm_pc' = "done"
    /\ UNCHANGED <<bm_ids, bm_rec, frVars, scVars, cdVars, rcVars, inVars>>

NextBitmap == MasterPack \/ MasterFaders

SpecBitmap == InitBitmap /\ [][NextBitmap]_vars

\* C3: for every subset S of 1..16 the packed record's low byte (data[1])
\* has bit id - 1 set exactly for the ids of S in 1..8, its high byte
\* (data[2]) has bit id - 9 set exactly for the ids of S in 9..16, {1, 2, 9}
\* gives 0b00000011 and 0b00000001, and bitmap_ids of the two bytes is S.
C3_BitmapSymmetry ==
    (bm_pc \in {"to_decode", "done"}) =>
        /\ IsOk(bm_rec)
        /\ LET low == bm_rec.value.data[2]
               high == bm_rec.value.data[3]
           IN  /\ \A id \in 1..8 : (id \in Range(bm_ids)) <=> ((low \div 2 ^ (id - 1)) % 2 = 1)
               /\ \A id \in 9..16 : (id \in Range(bm_ids)) <=> ((high \div 2 ^ (id - 9)) % 2 = 1)
               /\ low \in 0..255 /\ high \in 0..255
               /\ bm_ids = <<1, 2, 9>> => (low = 3 /\ high = 1)
        /\ bm_pc = "done" => bm_back = bm_ids

C3_Witness ==
    /\ bm_pc = "done"
    /\ bm_ids = <<1, 2, 9>>
    /\ bm_rec.value.data = <<2, 3, 1, 0>>
    /\ bm_back = <<1, 2, 9>>

(***************************************************************************)
(* SysexPatch.__init__ as a state machine: the construction up to the      *)
(* size check, then the loop of parse_records one iteration at a time.     *)
(***************************************************************************)
MaxFill == 37

RECURSIVE Repeat(_, _)
Repeat(seq, n) == IF n = 0 THEN <<>> ELSE seq \o Repeat(seq, n - 1)

\* "Test", space-padded to 16 bytes
TestName == <<84, 101, 115, 116>> \o Repeat(<<32>>, 12)

\* length-prefixed records that fill the buffer before its last bytes
FillSample == {<<1, 0>>, <<2, 16, 65>>, <<1, 1>>}

\* the last bytes of the buffer: nothing, whole records, a record cut short
\* by the end of the buffer, a zero prefix, a tag unknown to the Faders
TailSample ==
    { <<>>, <<1, 0>>, <<3, 2, 3, 1>>, <<5, 0>>, <<9, 1, 0, 127>>, <<0>>,
      <<1, 9>>, <<1, 0, 0>> }

\* the value written in the size field, for a record area of n bytes
SizeSample(n) == {n, n + 1, n + 18, 65535} \cup (IF n > 0 THEN {n - 1} ELSE {})

ScanAreas ==
    {Repeat(fill, k) \o tail :
        fill \in FillSample, k \in 0..MaxFill, tail \in TailSample}

ScanPayloads ==
    UNION { {TestName \o <<size \div 256, size % 256>> \o area :
                size \in SizeSample(Len(area))} : area \in ScanAreas }
    \cup { SubSeq(TestName, 1, 10), TestName \o <<0>> }

ScanInputs ==
    { pack_sysex(p, 0).value : p \in ScanPayloads }
    \cup { Fingerprint \o <<0, 1, 247>>,
           Fingerprint \o <<0, 4, 200, 0, 247>> }

InitScan ==
    /\ FramerIdle /\ BitmapIdle /\ CodecIdle /\ RecordIdle /\ InvocationsIdle
    /\ sc_pc = "new"
    /\ sc_raw \in ScanInputs
    /\ sc_data = <<>>
    /\ sc_st = ScanStart
    /\ sc_err = NoResult

\* SysexPatch.__init__ up to the call of parse_records
PatchInit ==
    /\ sc_pc = "new"
    /\ LET c == Construct(sc_raw)
       IN  IF IsOk(c)
           THEN sc_data' = c.value /\ sc_pc' = "scan" /\ sc_err' = sc_err
           ELSE sc_data' = sc_data /\ sc_pc' = "failed" /\ sc_err' = c
    /\ UNCHANGED <<sc_raw, sc_st, frVars, bmVars, cdVars, rcVars, inVars>>

\* one iteration of the loop of parse_records
ParseStep ==
    /\ sc_pc = "scan"
    /\ LET r == ScanIteration(sc_data, sc_st)
       IN  IF IsOk(r)
           THEN /\ sc_st' = r.value
                /\ sc_pc' = IF r.value.done THEN "done" ELSE "scan"
                /\ sc_err' = sc_err
           ELSE sc_st' = sc_st /\ sc_pc' = "failed" /\ sc_err' = r
    /\ UNCHANGED <<sc_raw, sc_data, frVars, bmVars, cdVars, rcVars, inVars>>

NextScan == PatchInit \/ ParseStep

SpecScan == InitScan /\ [][NextScan]_vars

\* the bytes of the length-prefixed records: 1 + length for each
RECURSIVE RecordBytes(_)
RecordBytes(records) ==
    IF records = <<>> THEN 0
    ELSE 1 + Len(Head(records).data) + RecordBytes(Tail(records))

\* the signed big-endian short at payload offset 16 of the dump
Declared(raw_data) == DataShort(unpack_sysex(raw_data).value, 16)

\* C8: parse_records completes only at record index 36: every successfully
\* constructed patch holds exactly 36 records.
C8_Exactly36Records == sc_pc = "done" => Len(sc_st.records) = 36

\* C9: in a constructed patch the declared data_size is the total length of
\* the length-prefixed records the scan found; the scan never holds more
\* record bytes than declared; and a dump whose declared size is not the
\* length of its record area is rejected at the size check, before any
\* record is decoded.
C9_SizeInvariant ==
    /\ sc_pc = "done" => Declared(sc_raw).value = RecordBytes(sc_st.records)
    /\ sc_pc = "scan" =>
          /\ RecordBytes(sc_st.records) <= Declared(sc_raw).value
          /\ RecordBytes(sc_st.records) = sc_st.record_offset - 18
    /\ sc_st.records # <<>> =>
          Declared(sc_raw).value = Len(unpack_sysex(sc_raw).value) - 18
    /\ (sc_pc = "failed" /\ IsOk(unpack_sysex(sc_raw)) /\ IsOk(Declared(sc_raw))
          /\ AllBytes(unpack_sysex(sc_raw).value)
          /\ Declared(sc_raw).value # Len(unpack_sysex(sc_raw).value) - 18) =>
          /\ sc_err = Raise("ValueError", "size")
          /\ sc_st.records = <<>>

C9_Witness ==
    /\ sc_pc = "done"
    /\ Len(sc_st.records) = 36
    /\ Declared(sc_raw).value = 72
    /\ RecordBytes(sc_st.records) = 72

(***************************************************************************)
(* The document codec as a state machine: a dump is decoded and the        *)
(* document encoded again; a document is encoded and the dump decoded      *)
(* again.                                                                  *)
(***************************************************************************)
\* well-formed records of the Faders and CVs
FaderRecords ==
    { <<0>>,                                        \* Disabled
      <<1, 0, 127, 1, 7, 0>>,                       \* CC
      <<49, 0, 127, 1, 7, 0, 86, 111, 108>>,        \* CC "Vol"
      <<2, 3, 1, 3>>,                               \* Master of faders 1, 2, 9
      <<18, 0, 128, 0, 77>>,                        \* Master "M" of fader 16
      <<19, 7, 255, 254, 1, 44, 2, 240, 127, 65>> } \* String "A", sysex f0 7f

\* well-formed records of the Buttons
ButtonRecords ==
    { <<0>>,                                        \* Disabled
      <<33, 77, 117>>,                              \* Mute "Mu"
      <<2>>,                                        \* Solo
      <<3, 1, 5>>,                                  \* ProgramChange
      <<20, 1, 60, 100, 78>>,                       \* NoteOnOff "N"
      <<5, 1, 240>>,                                \* ButtonString, sysex f0
      <<22, 1, 1, 0, 90>>,                          \* StringPressRelease "Z"
      <<7, 0, 1, 9>>,                               \* StringToggle
      <<24, 70>>,                                   \* SendFader "F"
      <<9, 5>> }                                    \* SendScene 5

WheelRecords == { <<0>>, <<1, 0>>, <<1, 17>>, <<1, 18>> }

\* well-formed Setup records
SetupRecords ==
    { <<0>>,                                        \* Disabled
      <<1, 0, 0, 0>>,                               \* no channel, scene, sysex
      <<1, 1, 0, 1, 127, 192, 0>>,                  \* channel 1: 2m, Off, 64
      <<1, 0, 0, 254, 5, 0>>,                       \* scene 5
      <<1, 0, 0, 254, 0, 0>>,                       \* scene 0
      <<1, 2, 1, 133, 128, 127, 0, 255, 129, 254, 5, 2, 65, 66>> }

\* the length prefix and the record
Prefixed(rec) == <<Len(rec)>> \o rec

\* the 36 records of a patch: the first fader, the first button, the data
\* wheel and the setup as given, every other record Disabled
RecordArea(f, b, w, u) ==
    Prefixed(f) \o Repeat(<<1, 0>>, 17) \o Prefixed(b) \o Repeat(<<1, 0>>, 15)
    \o Prefixed(w) \o Prefixed(u)

DumpOf(name, channel, area) ==
    pack_sysex(Ljust16(name) \o <<Len(area) \div 256, Len(area) % 256>> \o area,
               channel).value

\* the data wheel and the setup of a patch, one of them varied at a time
TailRecords ==
    {<<w, <<0>>>> : w \in WheelRecords} \cup {<<<<1, 17>>, u>> : u \in SetupRecords}

\* a patch name with a global channel
DumpHeads ==
    { <<<<84, 101, 115, 116>>, 0>>, <<<<65, 32, 32, 98>>, 3>>,
      <<<<80, 97, 116, 99, 104, 32, 110, 117, 109, 98, 101, 114, 32, 49, 54, 33>>, 15>> }

ValidDumps ==
    { DumpOf(h[1], h[2], RecordArea(f, b, t[1], t[2])) :
        h \in DumpHeads, f \in FaderRecords, b \in ButtonRecords,
        t \in TailRecords }

\* dumps that are not valid: 35 records, a name that is not text, a record
\* cut short, a tag unknown to its section, a wrong size, an all-presets dump
BrokenDumps ==
    { DumpOf(<<84>>, 0, Repeat(<<1, 0>>, 35)),
      DumpOf(<<84, 7>>, 0, Repeat(<<1, 0>>, 36)),
      DumpOf(<<84>>, 0, RecordArea(<<17, 0, 127, 1, 7, 0, 7>>, <<0>>, <<0>>, <<0>>)),
      DumpOf(<<84>>, 0, RecordArea(<<1, 0, 127>>, <<0>>, <<0>>, <<0>>)),
      DumpOf(<<84>>, 0, RecordArea(<<9>>, <<0>>, <<0>>, <<0>>)),
      DumpOf(<<84>>, 0, Repeat(<<1, 0>>, 35) \o <<5, 1, 0, 0>>),
      Fingerprint \o <<0, 4>> \o Nibbles(Ljust16(<<84>>) \o <<0, 9, 1, 0>>) \o <<247>>,
      Fingerprint \o <<0, 1>> \o Nibbles(Ljust16(<<84>>) \o <<0, 2, 1, 0>>) \o <<247>> }

\* dumps whose only defect is a name that is not text: a byte below 32 or
\* above 126 in the patch name, or in the name of a fader, a button or the
\* setup (the name of a Disabled and of a Setup record is read at offset 0)
GarbledDumps ==
    { DumpOf(n, 0, Repeat(<<1, 0>>, 36)) :
        n \in {<<84, 7>>, <<31>>, <<84, 101, 127>>, <<200, 84>>} }
    \cup
    ({ DumpOf(<<84>>, 2, RecordArea(f, b, <<0>>, u)) :
         f \in {<<0>>, <<17, 0, 127, 1, 7, 0, 7>>, <<34, 3, 1, 3, 65, 128>>, <<16>>},
         b \in {<<0>>, <<17, 127>>, <<19, 1, 5, 10>>},
         u \in {<<0>>, <<17, 0, 0, 0>>} }
     \ {DumpOf(<<84>>, 2, Repeat(<<1, 0>>, 36))})

\* valid items of the Faders and CVs
FaderItems ==
    { [type |-> "Disabled"],
      [type |-> "CC", min |-> 0, max |-> 127, channel |-> 1, cc |-> 7, mode |-> 0],
      [type |-> "CC", min |-> 0, max |-> 127, channel |-> 1, cc |-> 7, mode |-> 0,
       name |-> <<86, 111, 108>>],
      [type |-> "Master", faders |-> <<1, 2, 9>>, wut |-> 3],
      [type |-> "String", sysex |-> <<102, 48, 55, 102>>,
       param_format |-> "2Byte, Nibs,lo->hi", min |-> -2, max |-> 300,
       name |-> <<65>>] }

ButtonItems ==
    { [type |-> "Disabled"],
      [type |-> "Mute", name |-> <<77, 117>>],
      [type |-> "Solo"],
      [type |-> "ProgramChange", channel |-> 1, program |-> 5],
      [type |-> "NoteOnOff", channel |-> 1, note |-> 60, velocity |-> 100,
       name |-> <<78>>],
      [type |-> "ButtonString", sysex |-> <<102, 48>>],
      [type |-> "StringPressRelease", press |-> <<48, 49>>, release |-> <<>>,
       name |-> <<90>>],
      [type |-> "StringToggle", sysex1 |-> <<>>, sysex2 |-> <<48, 57>>],
      [type |-> "SendFader", name |-> <<70>>],
      [type |-> "SendScene", value |-> 5] }

WheelItems ==
    { [type |-> "Disabled"],
      [type |-> "DataWheel", mapped_to |-> "Fader 1"],
      [type |-> "DataWheel", mapped_to |-> "CV 2"] }

Channel1 ==
    [ch |-> 1, bank |-> [m |-> TRUE, v |-> 2], program |-> [off |-> TRUE, v |-> 0],
     volume |-> [off |-> FALSE, v |-> 64]]

Channel9 ==
    [ch |-> 9, bank |-> [m |-> FALSE, v |-> 5], program |-> [off |-> FALSE, v |-> 0],
     volume |-> [off |-> TRUE, v |-> 0]]

SetupItems ==
    { [type |-> "Disabled"],
      [type |-> "Setup", sysex |-> <<>>],
      [type |-> "Setup", sysex |-> <<>>, channels |-> <<Channel1>>],
      [type |-> "Setup", sysex |-> <<52, 49>>, scene |-> 5,
       channels |-> <<Channel1, Channel9>>],
      [type |-> "Setup", sysex |-> <<>>, scene |-> 5],
      [type |-> "Setup", sysex |-> <<>>, scene |-> 0] }

DisabledItems(n) == [i \in 1..n |-> [type |-> "Disabled"]]

Document(name, channel, version, f, b, w, u) ==
    [name |-> name, global_channel |-> channel, file_version |-> version,
     faders |-> <<f>> \o DisabledItems(15), cvs |-> DisabledItems(2),
     buttons |-> <<b>> \o DisabledItems(15), data_wheel |-> <<w>>,
     setup |-> <<u>>]

TailItems ==
    {<<w, [type |-> "Disabled"]>> : w \in WheelItems}
    \cup {<<[type |-> "DataWheel", mapped_to |-> "Fader 1"], u>> : u \in SetupItems}

DocHeads == DumpHeads \cup {<<<<>>, 0>>}

ValidDocs ==
    { Document(h[1], h[2], FileVersion, f, b, t[1], t[2]) :
        h \in DocHeads, f \in FaderItems, b \in ButtonItems, t \in TailItems }

\* a name of 17 characters
LongName == Repeat(<<65>>, 17)

\* documents that are not valid: another file version, a patch name of 17
\* characters, a channel that is no byte, an item name of 16 characters, a
\* type unknown to its section, a missing field
BrokenDocs ==
    { Document(<<84>>, 0, "2.0.0", [type |-> "Disabled"], [type |-> "Disabled"],
               [type |-> "Disabled"], [type |-> "Disabled"]),
      Document(LongName, 0, FileVersion, [type |-> "Disabled"],
               [type |-> "Disabled"], [type |-> "Disabled"], [type |-> "Disabled"]),
      Document(LongName, 3, FileVersion, [type |-> "Disabled"],
               [type |-> "Mute", name |-> <<77>>], [type |-> "Disabled"],
               [type |-> "Setup", sysex |-> <<>>]),
      Document(<<84>>, 256, FileVersion, [type |-> "Disabled"],
               [type |-> "Disabled"], [type |-> "Disabled"], [type |-> "Disabled"]),
      Document(<<84>>, 0, FileVersion, [type |-> "Disabled"],
               [type |-> "Mute", name |-> Repeat(<<65>>, 16)],
               [type |-> "Disabled"], [type |-> "Disabled"]),
      Document(<<84>>, 0, FileVersion, [type |-> "Mute"], [type |-> "Disabled"],
               [type |-> "Disabled"], [type |-> "Disabled"]),
      Document(<<84>>, 0, FileVersion, [type |-> "CC", min |-> 0],
               [type |-> "Disabled"], [type |-> "Disabled"], [type |-> "Disabled"]) }

\* file versions other than the supported one
OtherVersions == {"2.0.0", "1.0", "1.0.1", "1.0.0 ", "0.1.0", ""}

\* documents of another file version: otherwise valid ones, and ones whose
\* items cannot be encoded either
VersionDocs ==
    { [d EXCEPT !.file_version = v] :
        d \in { Document(<<84>>, 0, FileVersion, f, [type |-> "Disabled"],
                          [type |-> "Disabled"], [type |-> "Disabled"]) :
                  f \in FaderItems } \cup BrokenDocs,
        v \in OtherVersions }

\* documents whose sections do not hold 16, 2, 16, 1 and 1 items: one fader
\* too many, one fader alone, one fader too few, two data wheels and no setup
MiscountedDocs ==
    { [name |-> <<84>>, global_channel |-> 0, file_version |-> FileVersion,
       faders |-> DisabledItems(c[1]), cvs |-> DisabledItems(c[2]),
       buttons |-> DisabledItems(c[3]),
       data_wheel |-> DisabledItems(c[4]),
       setup |-> DisabledItems(c[5])] :
        c \in { <<17, 2, 16, 1, 1>>, <<1, 0, 0, 0, 0>>, <<15, 2, 16, 1, 1>>,
                <<16, 2, 16, 2, 0>>, <<0, 0, 0, 0, 0>> } }

Init ==
    /\ FramerIdle /\ BitmapIdle /\ ScanIdle /\ RecordIdle /\ InvocationsIdle
    /\ cd_wire = NoResult /\ cd_patch = NoResult
    /\ cd_out = NoResult /\ cd_back = NoResult
    /\ \/ /\ cd_pc = "dump"
          /\ cd_doc = NoResult
          /\ \/ cd_src = "valid_dump" /\ cd_dump \in ValidDumps
             \/ cd_src = "broken_dump" /\ cd_dump \in BrokenDumps
             \/ cd_src = "garbled_dump" /\ cd_dump \in GarbledDumps
       \/ /\ cd_pc = "doc"
          /\ cd_dump = <<>>
          /\ \/ cd_src = "valid_doc" /\ cd_doc \in {Ok(d) : d \in ValidDocs}
             \/ cd_src = "broken_doc" /\ cd_doc \in {Ok(d) : d \in BrokenDocs}
             \/ cd_src = "version_doc" /\ cd_doc \in {Ok(d) : d \in VersionDocs}
             \/ cd_src = "miscounted_doc" /\ cd_doc \in {Ok(d) : d \in MiscountedDocs}

\* decode: SysexPatch(dump).to_dict()
DecodeDump ==
    /\ cd_pc = "dump"
    /\ cd_doc' = Decode(cd_dump)
    /\ cd_pc' = "decoded"
    /\ UNCHANGED <<cd_src, cd_dump, cd_wire, cd_patch, cd_out, cd_back,
                 frVars, bmVars, scVars, rcVars, inVars>>

\* encode the decoded document: sections_to_sysex_patch(**doc).to_raw_sysex()
EncodeDecoded ==
    /\ cd_pc = "decoded"
    /\ IsOk(cd_doc)
    /\ cd_wire' = EncodeWire(cd_doc.value)
    /\ cd_patch' = Constructed(cd_wire')
    /\ cd_out' = RawOfPatch(cd_patch')
    /\ cd_pc' = "done"
    /\ UNCHANGED <<cd_src, cd_dump, cd_doc, cd_back, frVars, bmVars, scVars, rcVars, inVars>>

\* encode a given document
EncodeDoc ==
    /\ cd_pc = "doc"
    /\ cd_wire' = EncodeWire(cd_doc.value)
    /\ cd_patch' = Constructed(cd_wire')
    /\ cd_out' = RawOfPatch(cd_patch')
    /\ cd_pc' = "encoded"
    /\ UNCHANGED <<cd_src, cd_dump, cd_doc, cd_back, frVars, bmVars, scVars, rcVars, inVars>>

\* decode what was encoded
DecodeEncoded ==
    /\ cd_pc = "encoded"
    /\ IsOk(cd_out)
    /\ cd_back' = Decode(cd_out.value)
    /\ cd_pc' = "done"
    /\ UNCHANGED <<cd_src, cd_dump, cd_doc, cd_wire, cd_patch, cd_out,
                 frVars, bmVars, scVars, rcVars, inVars>>

Next == DecodeDump \/ EncodeDecoded \/ EncodeDoc \/ DecodeEncoded

Spec == Init /\ [][Next]_vars

\* C1: round-trip identity through the document: a valid single-patch dump
\* (correct framing, size field equal to the payload length, 36 well-formed
\* records) decodes to a document, and encoding that document gives back
\* bytes identical to the dump.
C1_DumpRoundTrip ==
    /\ (cd_src = "valid_dump" /\ cd_pc = "decoded") => IsOk(cd_doc)
    /\ (cd_src = "valid_dump" /\ cd_pc = "done") =>
          /\ IsOk(cd_out)
          /\ cd_out.value = cd_dump

\* an item with the padding of its name stripped
NormalItem(item) ==
    IF "name" \in DOMAIN item THEN [item EXCEPT !.name = Rstrip(item.name)]
    ELSE item

\* a document with the padding of every name stripped
NormalDoc(doc) ==
    [doc EXCEPT !.name = Rstrip(doc.name),
                !.faders = [i \in DOMAIN doc.faders |-> NormalItem(doc.faders[i])],
                !.cvs = [i \in DOMAIN doc.cvs |-> NormalItem(doc.cvs[i])],
                !.buttons = [i \in DOMAIN doc.buttons |-> NormalItem(doc.buttons[i])],
                !.data_wheel =
                    [i \in DOMAIN doc.data_wheel |-> NormalItem(doc.data_wheel[i])],
                !.setup = [i \in DOMAIN doc.setup |-> NormalItem(doc.setup[i])]]

\* C2: document round-trip: a valid document (file_version "1.0.0", 16 fader,
\* 2 CV, 16 button, 1 data-wheel and 1 setup items, each with in-range
\* fields) encodes, the bytes decode, and the decoded document equals the
\* given one up to the padding of names.
C2_DocRoundTrip ==
    /\ (cd_src = "valid_doc" /\ cd_pc = "encoded") => IsOk(cd_out)
    /\ (cd_src = "valid_doc" /\ cd_pc = "done") =>
          /\ IsOk(cd_back)
          /\ NormalDoc(cd_back.value) = NormalDoc(cd_doc.value)

\* the payload the framing of an encoded document carries
EncodedPayload == Recombine(cd_wire.value, 7, Len(cd_wire.value) - 1)

\* C10: encoded layout: the payload of every encoded document is the name in
\* exactly 16 bytes (space-padded), then the 2-byte big-endian length of the
\* concatenated record bytes, then the length-prefixed records in the order
\* Faders, CVs, Buttons, DataWheel, Setup, so that the records start at
\* payload offset 18; the framing carries the document's global_channel.
C10_EncodedLayout ==
    (cd_pc \in {"encoded", "done"} /\ cd_src \in {"valid_doc", "broken_doc"}
       /\ IsOk(cd_wire)) =>
        LET raw == SectionsRaw(cd_doc.value).value
        IN  /\ Len(EncodedPayload) = 18 + Len(raw)
            /\ Len(Slice(EncodedPayload, 0, 16)) = 16
            /\ \E k \in 0..16 :
                  Slice(EncodedPayload, 0, 16)
                      = Slice(Utf8Encode(cd_doc.value.name), 0, k) \o Repeat(<<32>>, 16 - k)
            /\ Slice(EncodedPayload, 16, 18) = <<Len(raw) \div 256, Len(raw) % 256>>
            /\ Slice(EncodedPayload, 18, Len(EncodedPayload)) = raw
            /\ At(cd_wire.value, 5) = cd_doc.value.global_channel

(***************************************************************************)
(* One record as a state machine: a document item is packed and the record *)
(* read back with to_dict; the bytes of a record are typed by              *)
(* record_factory and read with to_dict.                                   *)
(***************************************************************************)
\* an item of every variant, without a name
BaseItems ==
    { <<Faders, [type |-> "Disabled"]>>,
      <<Faders, [type |-> "CC", min |-> 0, max |-> 127, channel |-> 1, cc |-> 7,
                 mode |-> 0]>>,
      <<Cvs, [type |-> "Master", faders |-> <<1, 2, 9>>, wut |-> 3]>>,
      <<Faders, [type |-> "String", sysex |-> <<102, 48, 55, 102>>,
                 param_format |-> "Single byte", min |-> -2, max |-> 300]>>,
      <<Buttons, [type |-> "Mute"]>>,
      <<Buttons, [type |-> "Solo"]>>,
      <<Buttons, [type |-> "ProgramChange", channel |-> 1, program |-> 5]>>,
      <<Buttons, [type |-> "NoteOnOff", channel |-> 1, note |-> 60,
                  velocity |-> 100]>>,
      <<Buttons, [type |-> "ButtonString", sysex |-> <<102, 48>>]>>,
      <<Buttons, [type |-> "StringPressRelease", press |-> <<48, 49>>,
                  release |-> <<>>]>>,
      <<Buttons, [type |-> "StringToggle", sysex1 |-> <<>>,
                  sysex2 |-> <<48, 57>>]>>,
      <<Buttons, [type |-> "StringPressRelease", press |-> <<102, 48, 55, 102>>,
                  release |-> <<102, 55>>]>>,
      <<Buttons, [type |-> "StringToggle", sysex1 |-> <<48, 49, 48, 50, 48, 51>>,
                  sysex2 |-> <<102, 102>>]>>,
      <<Buttons, [type |-> "SendFader"]>>,
      <<Buttons, [type |-> "SendScene", value |-> 5]>>,
      <<Buttons, [type |-> "SendScene", value |-> 65]>>,
      <<DataWheelSection, [type |-> "DataWheel", mapped_to |-> "CV 2"]>>,
      <<SetupSection, [type |-> "Setup"]>>,
      <<SetupSection, [type |-> "Setup", channels |-> <<Channel1>>]>>,
      <<SetupSection, [type |-> "Setup", scene |-> 0]>>,
      <<SetupSection, [type |-> "Setup", channels |-> <<Channel9, Channel1>>]>>,
      <<SetupSection, [type |-> "Setup", scene |-> 7, sysex |-> <<102, 101>>]>>,
      <<SetupSection, [type |-> "Setup", sysex |-> <<>>, channels |-> <<Channel1>>]>>,
      <<SetupSection, [type |-> "Setup", sysex |-> <<52, 49>>, scene |-> 5,
                       channels |-> <<Channel1, Channel9>>]>> }

\* names of 0, 3, 15, 16 and 17 characters
NameSample ==
    { <<>>, <<86, 111, 108>>, Repeat(<<65>>, 15), Repeat(<<65>>, 16), LongName }

\* the item with the keyword name
Named(item, name) ==
    [k \in DOMAIN item \cup {"name"} |-> IF k = "name" THEN name ELSE item[k]]

RecordItems ==
    BaseItems \cup {<<b[1], Named(b[2], n)>> : b \in BaseItems, n \in NameSample}

\* records as they stand in a dump: well formed, with a name length that
\* overruns the record, cut short, with a blob length that overruns the
\* record, with a name that is not text, with a tag unknown to the section
\* every type tag in every section: the tag alone, and behind a name nibble
TagSamples ==
    { <<s, <<t>>>> :
        s \in {Faders, Cvs, Buttons, DataWheelSection, SetupSection}, t \in 0..15 }
    \cup
    { <<s, <<32 + t, 65, 66>>>> :
        s \in {Faders, Cvs, Buttons, DataWheelSection, SetupSection}, t \in 0..15 }

RecordSamples ==
    {<<Faders, r>> : r \in FaderRecords} \cup {<<Cvs, r>> : r \in FaderRecords}
    \cup {<<Buttons, r>> : r \in ButtonRecords}
    \cup {<<DataWheelSection, r>> : r \in WheelRecords}
    \cup {<<SetupSection, r>> : r \in SetupRecords}
    \cup { <<Faders, <<65, 0, 127, 1, 7, 0, 86, 111, 108>>>>,
           <<Cvs, <<65, 0, 127, 1, 7, 0, 86, 111, 108>>>>,
           <<Faders, <<1, 10, 20, 30, 40, 50>>>>,
           <<Faders, <<33, 5, 4, 3, 2, 1, 72, 105>>>>,
           <<Faders, <<65, 5, 4, 3, 2, 1, 86, 111, 108, 32>>>>,
           <<Faders, <<3, 1>>>>,
           <<Faders, <<3, 1, 0, 0, 0, 0, 0>>>>,
           <<Faders, <<17, 0, 127, 1, 7, 0, 7>>>>,
           <<Faders, <<16>>>>,
           <<Buttons, <<5, 0>>>>,
           <<Buttons, <<5, 3, 1>>>>,
           <<Faders, <<3, 1, 0, 0, 0, 1, 4, 240>>>>,
           <<Buttons, <<6, 0, 0>>>>,
           <<Buttons, <<7>>>>,
           <<Buttons, <<24, 127>>>>,
           <<Buttons, <<10>>>>,
           <<DataWheelSection, <<2, 0>>>>,
           <<DataWheelSection, <<1, 19>>>>,
           <<SetupSection, <<17, 0, 0, 0>>>>,
           <<SetupSection, <<1, 1, 0, 5, 0, 127, 0>>>>,
           <<SetupSection, <<1, 0, 128, 128, 129, 100, 0>>>>,
           <<SetupSection, <<1, 3, 0, 127, 127, 127, 0, 255, 255, 0>>>>,
           <<SetupSection, <<3>>>>,
           <<Faders, <<>>>> }
    \cup TagSamples

InitRecord ==
    /\ FramerIdle /\ BitmapIdle /\ ScanIdle /\ CodecIdle /\ InvocationsIdle
    /\ rc_rec = NoResult /\ rc_dict = NoResult
    /\ \/ /\ rc_pc = "item" /\ rc_data = <<>>
          /\ \E i \in RecordItems : rc_section = i[1] /\ rc_item = i[2]
       \/ /\ rc_pc = "bytes" /\ rc_item = <<>>
          /\ \E r \in RecordSamples : rc_section = r[1] /\ rc_data = r[2]

\* flatten_section, one item: section_lookup[section][type].pack(section, **item)
PackRecord ==
    /\ rc_pc = "item"
    /\ rc_rec' = Then(SectionClass(rc_section, rc_item.type),
                      LAMBDA cls : Pack(cls, rc_section, rc_item))
    /\ rc_pc' = "packed"
    /\ UNCHANGED <<rc_section, rc_item, rc_data, rc_dict, frVars, bmVars, scVars,
                   cdVars, inVars>>

\* to_dict of the record packed
PackedToDict ==
    /\ rc_pc = "packed"
    /\ IsOk(rc_rec)
    /\ rc_dict' = RecordToDict(rc_rec.value)
    /\ rc_pc' = "done"
    /\ UNCHANGED <<rc_section, rc_item, rc_data, rc_rec, frVars, bmVars, scVars,
                   cdVars, inVars>>

\* record_factory on the bytes of a record, and to_dict of the record
BytesToDict ==
    /\ rc_pc = "bytes"
    /\ rc_rec' = TypedRecord(rc_section, rc_data)
    /\ rc_dict' = Then(rc_rec', LAMBDA rec : RecordToDict(rec))
    /\ rc_pc' = "done"
    /\ UNCHANGED <<rc_section, rc_item, rc_data, frVars, bmVars, scVars, cdVars, inVars>>

NextRecord == PackRecord \/ PackedToDict \/ BytesToDict

SpecRecord == InitRecord /\ [][NextRecord]_vars

\* C11: name-length bound: for every record variant, packing a document
\* item whose name is longer than 15 characters fails with an error and
\* gives no record.
C11_NameLengthBound ==
    (/\ rc_pc \in {"packed", "done"}
     /\ rc_item # <<>>
     /\ "name" \in DOMAIN rc_item
     /\ Len(rc_item.name) > 15) => ~IsOk(rc_rec)

\* the number of bytes of the blob a hexadecimal string stands for
HexBytes(item, key) == IF key \in DOMAIN item THEN Len(item[key]) \div 2 ELSE 0

\* the length of a record without its name: the first byte, the fixed fields
\* and the length-prefixed blobs of the variant (the scene marker of a Setup
\* is written for a scene other than 0)
LayoutLength(item) ==
    CASE item.type \in {"Disabled", "Mute", "Solo", "SendFader"} -> 1
      [] item.type \in {"SendScene", "DataWheel"} -> 2
      [] item.type = "ProgramChange" -> 3
      [] item.type \in {"Master", "NoteOnOff"} -> 4
      [] item.type = "CC" -> 6
      [] item.type = "String" -> 7 + HexBytes(item, "sysex")
      [] item.type = "ButtonString" -> 2 + HexBytes(item, "sysex")
      [] item.type = "StringPressRelease" ->
            3 + HexBytes(item, "press") + HexBytes(item, "release")
      [] item.type = "StringToggle" ->
            3 + HexBytes(item, "sysex1") + HexBytes(item, "sysex2")
      [] item.type = "Setup" ->
            3 + 3 * Len(ItemChannels(item))
            + (IF "scene" \in DOMAIN item /\ item.scene # 0 THEN 2 ELSE 0)
            + 1 + HexBytes(item, "sysex")

NameRange(rec) ==
    LET o == NameOffset(rec.cls, rec.data)
    IN  IF IsOk(o) THEN Slice(rec.data, o.value, o.value + NameLength(rec.data))
        ELSE <<>>

\* the patch name or the name of a record holds a byte outside 32..126
GarbledText(patch) ==
    \/ \E i \in 1..16 : ~(patch.data[i] \in 32..126)
    \/ \E k \in 1..Len(patch.records) :
          \E j \in 1..Len(NameRange(patch.records[k])) :
              ~(NameRange(patch.records[k])[j] \in 32..126)

\* C13: malformed text is a hard stop.  Converting a dump whose patch name
\* or one of whose record names holds a byte outside 32..126 produces no
\* document, whatever else the dump holds; when the text is the only defect
\* the conversion ends with the error of Data.string
\* (UnsupportedFormatError, the MalformedText of the specification), and
\* nothing is encoded from it.
C13_MalformedTextStops ==
    /\ (/\ cd_dump # <<>>
        /\ cd_pc # "dump"
        /\ IsOk(SysexPatch(cd_dump))
        /\ GarbledText(SysexPatch(cd_dump).value))
       => (/\ ~IsOk(cd_doc)
           /\ cd_pc = "decoded"
           /\ cd_out = NoResult)
    /\ (cd_src = "garbled_dump" /\ cd_pc # "dump")
       => (/\ IsOk(SysexPatch(cd_dump))
           /\ GarbledText(SysexPatch(cd_dump).value)
           /\ cd_doc = Raise("UnsupportedFormatError", "string"))

\* a dump whose first fader is a CC named by the byte 07 has been converted
C13_Witness ==
    /\ cd_pc = "decoded"
    /\ cd_dump = DumpOf(<<84>>, 2, RecordArea(<<17, 0, 127, 1, 7, 0, 7>>, <<0>>, <<0>>, <<0>>))
    /\ IsOk(SysexPatch(cd_dump))
    /\ SysexPatch(cd_dump).value.records[1].cls = "CC"
    /\ NameRange(SysexPatch(cd_dump).value.records[1]) = <<7>>
    /\ cd_doc = Raise("UnsupportedFormatError", "string")

(***************************************************************************)
(* The type catalogue.                                                     *)
(***************************************************************************)
\* the variant the catalogue gives to a type tag of a section, "" when the
\* section has no variant for the tag
Catalogue(section, tag) ==
    CASE section \in {Faders, Cvs} ->
            (CASE tag = 0 -> "Disabled" [] tag = 1 -> "CC" [] tag = 2 -> "Master"
               [] tag = 3 -> "String" [] OTHER -> "")
      [] section = Buttons ->
            (CASE tag = 0 -> "Disabled" [] tag = 1 -> "Mute" [] tag = 2 -> "Solo"
               [] tag = 3 -> "ProgramChange" [] tag = 4 -> "NoteOnOff"
               [] tag = 5 -> "ButtonString" [] tag = 6 -> "StringPressRelease"
               [] tag = 7 -> "StringToggle" [] tag = 8 -> "SendFader"
               [] tag = 9 -> "SendScene" [] OTHER -> "")
      [] section = DataWheelSection ->
            (CASE tag = 0 -> "Disabled" [] tag = 1 -> "DataWheel" [] OTHER -> "")
      [] section = SetupSection ->
            (CASE tag = 0 -> "Disabled" [] tag = 1 -> "Setup" [] OTHER -> "")

\* C14: variant dispatch.  record_factory gives a record the variant the
\* catalogue lists for its section and the low nibble of its first byte,
\* whatever the rest of the record holds, and the item made of it carries
\* that variant as its type; a tag the section has no variant for ends
\* the conversion with the error of the table lookup (KeyError, the
\* UnknownVariant of the specification), and no record and no item is made.
C14_VariantDispatch ==
    (rc_pc = "done" /\ rc_item = <<>> /\ rc_data # <<>>) =>
        IF Catalogue(rc_section, rc_data[1] % 16) # ""
        THEN /\ rc_rec = Ok(Record(Catalogue(rc_section, rc_data[1] % 16),
                                   rc_section, rc_data))
             /\ IsOk(rc_dict) => rc_dict.value.type = Catalogue(rc_section, rc_data[1] % 16)
        ELSE /\ rc_rec = Raise("KeyError", "lookup")
             /\ ~IsOk(rc_dict)

\* a button record of tag 6 has become a StringPressRelease item
C14_Witness ==
    /\ rc_pc = "done"
    /\ rc_section = Buttons
    /\ rc_data = <<22, 1, 1, 0, 90>>
    /\ rc_rec = Ok(Record("StringPressRelease", Buttons, rc_data))
    /\ IsOk(rc_dict)
    /\ rc_dict.value.type = "StringPressRelease"

(***************************************************************************)
(* The file version.                                                       *)
(***************************************************************************)
\* C15: the file-version gate.  Encoding a document whose file_version is
\* not "1.0.0" ends with the error of the version test (a ValueError, the
\* UnsupportedFileVersion of the specification) whatever its items are,
\* also when an item could not have been encoded, so that no record is
\* encoded and no dump is built; and every document that decoding
\* produces carries file_version "1.0.0".
C15_FileVersionGate ==
    /\ (cd_pc \in {"encoded", "done"} /\ cd_dump = <<>>
        /\ cd_doc.value.file_version # "1.0.0")
       => (/\ cd_wire = Raise("ValueError", "file_version")
           /\ cd_patch = cd_wire
           /\ cd_out = cd_wire
           /\ cd_pc = "encoded"
           /\ cd_back = NoResult)
    /\ (cd_pc \in {"decoded", "done"} /\ cd_dump # <<>> /\ IsOk(cd_doc))
       => cd_doc.value.file_version = "1.0.0"
    /\ IsOk(cd_back) => cd_back.value.file_version = "1.0.0"

\* a document of version 1.0.1 whose first fader lacks its fields has been
\* refused for its version
C15_Witness ==
    /\ cd_pc = "encoded"
    /\ cd_doc.value.file_version = "1.0.1"
    /\ cd_doc.value.faders[1] = [type |-> "CC", min |-> 0]
    /\ ~IsOk(SectionsRaw(cd_doc.value))
    /\ cd_out = Raise("ValueError", "file_version")

(***************************************************************************)
(* The scenarios of single records.                                        *)
(***************************************************************************)
\* channel 1 with bank "2m", program "Off" and volume 64
Scenario5Channels ==
    << [ch |-> 1, bank |-> [m |-> TRUE, v |-> 2],
        program |-> [off |-> TRUE, v |-> 0],
        volume |-> [off |-> FALSE, v |-> 64]] >>

Scenario5Bytes == <<1, 1, 0, 1, 127, 192, 0>>

\* C16: scenario 5.  A Setup item with channel 1 of bank "2m", program
\* "Off" and volume 64, without a name, a scene and a sysex (the key left
\* out or the empty string), encodes to the bytes 01 01 00 01 7F C0 00, and
\* these bytes decode to a Setup item with the same channel, without a
\* name and a scene and with the empty sysex.
C16_SetupScenario ==
    /\ (/\ rc_pc \in {"packed", "done"}
        /\ rc_item \in { [type |-> "Setup", channels |-> Scenario5Channels],
                         [type |-> "Setup", channels |-> Scenario5Channels,
                          sysex |-> <<>>] })
       => rc_rec = Ok(Record("Setup", SetupSection, Scenario5Bytes))
    /\ (/\ rc_pc = "done"
        /\ rc_section = SetupSection
        /\ IsOk(rc_rec)
        /\ rc_rec.value.data = Scenario5Bytes)
       => rc_dict = Ok([type |-> "Setup", channels |-> Scenario5Channels,
                        sysex |-> <<>>])

\* the item of the scenario has been encoded and the record read back
C16_Witness ==
    /\ rc_pc = "done"
    /\ rc_item = [type |-> "Setup", channels |-> Scenario5Channels]
    /\ rc_rec = Ok(Record("Setup", SetupSection, Scenario5Bytes))
    /\ IsOk(rc_dict)
    /\ rc_dict.value.channels = rc_item.channels
    /\ DOMAIN rc_dict.value = {"type", "channels", "sysex"}

Scenario2Bytes == <<65, 0, 127, 1, 7, 0, 86, 111, 108>>

\* C17: scenario 2.  The CC record 41 00 7F 01 07 00 "Vol" decodes to the
\* item of type CC with min 0, max 127, channel 1, cc 7, mode 0 and the
\* name "Vol".  In general the fields min, max, channel, cc and mode of a
\* CC record are its bytes 1 to 5, the length of its name is the high
\* nibble of byte 0, and the name is made of the bytes from offset 6 on; an
\* item is encoded to that layout.
C17_CcScenario ==
    /\ (rc_pc = "done" /\ rc_data = Scenario2Bytes /\ rc_section \in {Faders, Cvs})
       => rc_dict = Ok([type |-> "CC", min |-> 0, max |-> 127, channel |-> 1,
                        cc |-> 7, mode |-> 0, name |-> <<86, 111, 108>>])
    /\ (/\ rc_pc = "done"
        /\ IsOk(rc_rec)
        /\ rc_rec.value.cls = "CC"
        /\ IsOk(rc_dict))
       => LET d == rc_rec.value.data
              name == SubSeq(d, 7, Min(6 + (d[1] \div 16), Len(d)))
          IN  /\ rc_dict.value.type = "CC"
              /\ rc_dict.value.min = d[2]
              /\ rc_dict.value.max = d[3]
              /\ rc_dict.value.channel = d[4]
              /\ rc_dict.value.cc = d[5]
              /\ rc_dict.value.mode = d[6]
              /\ IF name = <<>> THEN "name" \notin DOMAIN rc_dict.value
                 ELSE rc_dict.value.name = name
    /\ (/\ rc_pc \in {"packed", "done"}
        /\ rc_item # <<>>
        /\ rc_item.type = "CC"
        /\ IsOk(rc_rec))
       => rc_rec.value.data =
              <<16 * Len(ItemName(rc_item)) + 1, rc_item.min, rc_item.max,
                rc_item.channel, rc_item.cc, rc_item.mode>> \o ItemName(rc_item)

\* the record of the scenario has been decoded as a fader
C17_Witness ==
    /\ rc_pc = "done"
    /\ rc_section = Faders
    /\ rc_data = Scenario2Bytes
    /\ rc_rec = Ok(Record("CC", Faders, Scenario2Bytes))
    /\ NameLength(rc_data) = 4
    /\ IsOk(rc_dict)
    /\ rc_dict.value.name = <<86, 111, 108>>

(***************************************************************************)
(* The scenario of the minimal patch.                                      *)
(***************************************************************************)
\* the payload is a 16-byte name of text, the size 72 and 36 times the
\* record 00 behind its length 01
MinimalPatch(raw_data) ==
    /\ IsOk(unpack_sysex(raw_data))
    /\ LET data == unpack_sysex(raw_data).value
       IN  /\ Len(data) = 18 + 72
           /\ \A i \in 1..16 : data[i] \in 32..126
           /\ data[17] = 0 /\ data[18] = 72
           /\ \A k \in 1..36 : data[18 + 2 * k - 1] = 1 /\ data[18 + 2 * k] = 0

\* C18: scenario 1.  Decoding a minimal patch, whose 36 records are all
\* the Disabled record 00, gives a document of 16 faders, 2 CVs, 16
\* buttons, 1 data wheel and 1 setup, 36 items in all, each of type
\* "Disabled" and without any other key, so without a name.
C18_AllDisabled ==
    (cd_pc \in {"decoded", "done"} /\ cd_dump # <<>> /\ MinimalPatch(cd_dump)) =>
        /\ IsOk(cd_doc)
        /\ Len(cd_doc.value.faders) = 16
        /\ Len(cd_doc.value.cvs) = 2
        /\ Len(cd_doc.value.buttons) = 16
        /\ Len(cd_doc.value.data_wheel) = 1
        /\ Len(cd_doc.value.setup) = 1
        /\ \A s \in {"faders", "cvs", "buttons", "data_wheel", "setup"} :
              \A i \in 1..Len(cd_doc.value[s]) :
                  cd_doc.value[s][i] = [type |-> "Disabled"]

\* the minimal patch "Test" has been decoded
C18_Witness ==
    /\ cd_pc = "decoded"
    /\ MinimalPatch(cd_dump)
    /\ cd_dump = DumpOf(<<84, 101, 115, 116>>, 0, Repeat(<<1, 0>>, 36))
    /\ IsOk(cd_doc)
    /\ cd_doc.value.name = <<84, 101, 115, 116>>
    /\ cd_doc.value.setup = <<[type |-> "Disabled"]>>

(***************************************************************************)
(* Sections by position.                                                   *)
(***************************************************************************)
\* the section of the record with the 1-based index i, for i up to 36
PositionSection(i) ==
    IF i <= 16 THEN Faders
    ELSE IF i <= 18 THEN Cvs
    ELSE IF i <= 34 THEN Buttons
    ELSE IF i = 35 THEN DataWheelSection
    ELSE SetupSection

\* the place of a section in the order of the sections
SectionRank(section) ==
    CASE section = Faders -> 1
      [] section = Cvs -> 2
      [] section = Buttons -> 3
      [] section = DataWheelSection -> 4
      [] section = SetupSection -> 5

\* every record read so far has the section of its position
SectionByPosition ==
    \A i \in 1..Len(sc_st.records) :
        i <= 36 => sc_st.records[i].section = PositionSection(i)

\* a step leaves the current section or moves it forward in the order
SectionAdvances ==
    SectionRank(sc_st'.current_section) >= SectionRank(sc_st.current_section)

\* C20: section assignment by position.  In every state of the scan of
\* parse_records the record with the 1-based index i has the section
\* Faders for i in 1..16, CVs for 17..18, Buttons for 19..34, DataWheel for
\* 35 and Setup for 36, whatever its bytes are, and no step of the scan
\* moves the current section backwards in that order.
C20_SectionByPosition == [] SectionByPosition /\ [][SectionAdvances]_vars

\* a scan has read 36 records, the last two as the DataWheel and the Setup
\* made of the same bytes 01 as the CC and the Mute before them
C20_Witness ==
    /\ sc_pc \in {"scan", "done"}
    /\ Len(sc_st.records) >= 36
    /\ \A i \in 1..36 : sc_st.records[i].data = <<1>>
    /\ sc_st.records[1].cls = "CC"
    /\ sc_st.records[19].cls = "Mute"
    /\ sc_st.records[35].section = DataWheelSection
    /\ sc_st.records[36].section = SetupSection
    /\ sc_st.current_section = SetupSection

(***************************************************************************)
(* Two invocations on one input.  Each invocation is a call of decode,     *)
(* SysexPatch(d).to_dict(), or of encode, sections_to_sysex_patch of the   *)
(* document followed by to_raw_sysex(); its steps are the calls            *)
(* it makes and the iterations of the loop of parse_records, and the steps *)
(* of the two invocations interleave in any order.  What the invocations   *)
(* could share is the module-level tables, which every step reads; the     *)
(* records of a patch are a field of the SysexPatch instance the           *)
(* invocation has built.                                                   *)
(***************************************************************************)
Invocations == {1, 2}

\* the tables of record.py as the import leaves them; name_to_fader_id and
\* the like hold the classes of the *_types tables in the same order, and
\* param_format_inversion is param_format_lookup inverted
ModuleTables ==
    [fader_types |-> fader_types, button_types |-> button_types,
     data_wheel_types |-> data_wheel_types, setup_types |-> setup_types,
     param_format_lookup |-> param_format_lookup, wheel_lookup |-> wheel_lookup]

\* a plausible slip: _records a list of the class, one for all instances
Instance_shared(t) == 1

\* the SysexPatch instance an invocation builds: its own
Instance(t) == t

\* dumps handed to decode: the minimal patch, a patch of a String fader, a
\* button, the data wheel and a Setup, a patch whose first button has an
\* unknown tag, a patch whose data wheel cannot be named
InvocationDumps ==
    { DumpOf(<<84, 101, 115, 116>>, 0, Repeat(<<1, 0>>, 36)),
      DumpOf(<<65, 32, 32, 98>>, 3,
             RecordArea(<<19, 7, 255, 254, 1, 44, 2, 240, 127, 65>>, <<33, 77, 117>>,
                        <<1, 17>>,
                        <<1, 2, 1, 133, 128, 127, 0, 255, 129, 254, 5, 2, 65, 66>>)),
      DumpOf(<<84>>, 0, RecordArea(<<0>>, <<10>>, <<0>>, <<0>>)),
      DumpOf(<<84>>, 0, RecordArea(<<0>>, <<0>>, <<1, 19>>, <<0>>)) }

\* documents handed to encode: two valid ones, one with a fader of a
\* button type, one of another file version
InvocationDocs ==
    { Document(<<84>>, 0, FileVersion, [type |-> "Disabled"], [type |-> "Disabled"],
               [type |-> "Disabled"], [type |-> "Disabled"]),
      Document(<<65, 32, 98>>, 3, FileVersion,
               [type |-> "String", sysex |-> <<102, 48, 55, 102>>,
                param_format |-> "Single byte", min |-> -2, max |-> 300,
                name |-> <<65>>],
               [type |-> "Mute", name |-> <<77, 117>>],
               [type |-> "DataWheel", mapped_to |-> "CV 2"],
               [type |-> "Setup", sysex |-> <<52, 49>>, scene |-> 5,
                channels |-> <<Channel1, Channel9>>]),
      Document(<<84>>, 0, FileVersion, [type |-> "Mute"], [type |-> "Disabled"],
               [type |-> "Disabled"], [type |-> "Disabled"]),
      Document(<<84>>, 0, "2.0.0", [type |-> "Disabled"], [type |-> "Disabled"],
               [type |-> "Disabled"], [type |-> "Disabled"]) }

\* the locals of an invocation: the bytes handed to SysexPatch, self.data,
\* the locals of parse_records and the records of to_dict or flatten
NoLocals == [wire |-> <<>>, data |-> <<>>, st |-> ScanStart, records |-> <<>>]

InitInvocations ==
    /\ FramerIdle /\ BitmapIdle /\ ScanIdle /\ CodecIdle /\ RecordIdle
    /\ in_tables = ModuleTables
    /\ in_records = [t \in Invocations |-> <<>>]
    /\ in_out = [t \in Invocations |-> NoResult]
    /\ \/ /\ in_kind = "decode"
          /\ in_input \in InvocationDumps
          /\ in_pc = [t \in Invocations |-> "wire"]
          /\ in_local = [t \in Invocations |-> [NoLocals EXCEPT !.wire = in_input]]
       \/ /\ in_kind = "encode"
          /\ in_input \in InvocationDocs
          /\ in_pc = [t \in Invocations |-> "doc"]
          /\ in_local = [t \in Invocations |-> NoLocals]

\* an invocation ends with the exception r
Raised(t, r) ==
    /\ in_out' = [in_out EXCEPT ![t] = r]
    /\ in_pc' = [in_pc EXCEPT ![t] = "done"]

\* sections_to_sysex_patch up to the call of SysexPatch
BuildWire(t) ==
    /\ in_pc[t] = "doc"
    /\ LET w == EncodeWire(in_input)
       IN  IF IsOk(w)
           THEN /\ in_local' = [in_local EXCEPT ![t].wire = w.value]
                /\ in_pc' = [in_pc EXCEPT ![t] = "wire"]
                /\ in_out' = in_out
           ELSE Raised(t, w) /\ in_local' = in_local
    /\ UNCHANGED <<in_kind, in_input, in_tables, in_records,
                 frVars, bmVars, scVars, cdVars, rcVars>>

\* SysexPatch.__init__ up to the loop of parse_records, which starts with
\* self._records = []
NewPatch(t) ==
    /\ in_pc[t] = "wire"
    /\ LET c == Construct(in_local[t].wire)
       IN  IF IsOk(c)
           THEN /\ in_local' = [in_local EXCEPT ![t].data = c.value]
                /\ in_records' = [in_records EXCEPT ![Instance(t)] = <<>>]
                /\ in_pc' = [in_pc EXCEPT ![t] = "scan"]
                /\ in_out' = in_out
           ELSE Raised(t, c) /\ in_local' = in_local /\ in_records' = in_records
    /\ UNCHANGED <<in_kind, in_input, in_tables, frVars, bmVars, scVars, cdVars, rcVars>>

\* one iteration of the loop of parse_records: the record is appended to
\* self._records
ScanRecord(t) ==
    /\ in_pc[t] = "scan"
    /\ LET r == ScanIteration(in_local[t].data,
                              [in_local[t].st EXCEPT
                                  !.records = in_records[Instance(t)]])
       IN  IF IsOk(r)
           THEN /\ in_records' = [in_records EXCEPT ![Instance(t)] = r.value.records]
                /\ in_local' = [in_local EXCEPT ![t].st =
                                   [r.value EXCEPT !.records = <<>>]]
                /\ in_pc' = [in_pc EXCEPT ![t] = IF r.value.done THEN "parsed"
                                                 ELSE "scan"]
                /\ in_out' = in_out
           ELSE Raised(t, r) /\ in_local' = in_local /\ in_records' = in_records
    /\ UNCHANGED <<in_kind, in_input, in_tables, frVars, bmVars, scVars, cdVars, rcVars>>

\* SysexPatch.records, as to_dict and flatten call it first: self._records,
\* parsed again when it is empty
PatchRecords(t) ==
    /\ in_pc[t] = "parsed"
    /\ LET r == IF in_records[Instance(t)] # <<>> THEN Ok(in_records[Instance(t)])
                ELSE parse_records(in_local[t].data)
       IN  IF IsOk(r)
           THEN /\ in_local' = [in_local EXCEPT ![t].records = r.value]
                /\ in_pc' = [in_pc EXCEPT ![t] = "listed"]
                /\ in_out' = in_out
           ELSE Raised(t, r) /\ in_local' = in_local
    /\ UNCHANGED <<in_kind, in_input, in_tables, in_records,
                 frVars, bmVars, scVars, cdVars, rcVars>>

\* the patch of an invocation
PatchOf(t) ==
    [raw_data |-> in_local[t].wire, data |-> in_local[t].data,
     records |-> in_local[t].records]

\* the rest of to_dict, or of to_raw_sysex
Finish(t) ==
    /\ in_pc[t] = "listed"
    /\ in_out' = [in_out EXCEPT ![t] =
                     IF in_kind = "decode" THEN PatchToDict(PatchOf(t))
                     ELSE to_raw_sysex(PatchOf(t))]
    /\ in_pc' = [in_pc EXCEPT ![t] = "done"]
    /\ UNCHANGED <<in_kind, in_input, in_tables, in_local, in_records,
                 frVars, bmVars, scVars, cdVars, rcVars>>

NextInvocations ==
    \E t \in Invocations :
        BuildWire(t) \/ NewPatch(t) \/ ScanRecord(t) \/ PatchRecords(t) \/ Finish(t)

SpecInvocations == InitInvocations /\ [][NextInvocations]_vars

\* two outcomes are the same value, or the same exception
SameOutcome(a, b) ==
    /\ a.exc = b.exc
    /\ a.at = b.at
    /\ a.exc = "none" => a.value = b.value

\* when both invocations have ended, they have ended with the same outcome
SameOutcomes ==
    (\A t \in Invocations : in_pc[t] = "done") => SameOutcome(in_out[1], in_out[2])

\* a step is the step of one invocation: it leaves the tables and all that
\* belongs to the other invocation (its position, its locals, the records
\* of its patch, its outcome) as they are
NothingShared ==
    /\ in_tables' = in_tables
    /\ \E t \in Invocations :
          \A u \in Invocations \ {t} :
              /\ in_pc'[u] = in_pc[u]
              /\ in_local'[u] = in_local[u]
              /\ in_records'[u] = in_records[u]
              /\ in_out'[u] = in_out[u]

PrefixOffset(records, k) == 18 + RecordBytes(SubSeq(records, 1, k - 1))

\* C21: every step of parse_records reads the 1-byte length prefix L at the
\* cursor, builds a record over exactly L bytes and advances the cursor by
\* 1 + L; the last record of a constructed patch too has exactly as many
\* bytes as its prefix declares.
C21_ScanStep ==
    sc_pc \in {"scan", "done"} =>
        /\ \A k \in 1..Len(sc_st.records) :
              Len(sc_st.records[k].data)
                  = At(sc_data, PrefixOffset(sc_st.records, k))
        /\ sc_st.record_offset = 18 + RecordBytes(sc_st.records)

(***************************************************************************)
(* The slice of the byte cursor, seen through the embedded blobs           *)
(***************************************************************************)
\* the variants whose first blob is Data.bytearray(lenAt + 1, data[lenAt]),
\* with the property that returns it and the offset lenAt of its length byte
FirstBlob(cls) ==
    CASE cls = "String" -> <<"sysex", 6>>
      [] cls = "ButtonString" -> <<"sysex", 1>>
      [] cls = "StringPressRelease" -> <<"press", 1>>
      [] cls = "StringToggle" -> <<"sysex1", 1>>
      [] OTHER -> <<>>

\* C22: the slice of the byte cursor is bounds-checked: Data.bytearray(offset,
\* length) returns exactly the length bytes buffer[offset .. offset + length
\* - 1] or fails; it never returns a buffer shorter than length.  Here for
\* the slice every blob accessor takes: a record that is read without error
\* reports a first blob of exactly the declared number of bytes.
C22_SliceBounds ==
    (/\ rc_pc = "done"
     /\ rc_item = <<>>
     /\ IsOk(rc_rec)
     /\ FirstBlob(rc_rec.value.cls) # <<>>
     /\ IsOk(rc_dict)) =>
        LET blob == FirstBlob(rc_rec.value.cls)
            length == At(rc_data, blob[2])
        IN  /\ Len(rc_dict.value[blob[1]]) = 2 * length
            /\ FromHexBytes(rc_dict.value[blob[1]])
                  = SubSeq(rc_data, blob[2] + 2, blob[2] + 1 + length)

(***************************************************************************)
(* Setup: the scene marker and the trailing blob                           *)
(***************************************************************************)
\* the scene of a document item or of a decoded item: <<>> when it has none
SceneOf(item) == IF "scene" \in DOMAIN item THEN <<item.scene>> ELSE <<>>

\* the bytes of the sysex of a document item or of a decoded item
SysexOf(item) == IF "sysex" \in DOMAIN item THEN FromHexBytes(item.sysex) ELSE <<>>

\* C23: the scene and the sysex of a Setup record are present by sentinel in
\* both directions: decode reports a scene iff the byte right after the
\* channel data (offset 3 + 3 * number of selected channels) is 0xFE, and a
\* sysex blob iff the length byte that follows is not zero; encode writes the
\* marker and the scene number for every item that carries a scene, scene 0
\* included, so that decoding the packed item reports the item's scene and
\* sysex.
C23_ScenePresence ==
    /\ (/\ rc_pc = "done" /\ rc_item = <<>> /\ IsOk(rc_rec)
        /\ rc_rec.value.cls = "Setup" /\ IsOk(rc_dict)) =>
          LET at == 3 + 3 * Len(bitmap_ids(rc_data[2], rc_data[3]))
              marked == At(rc_data, at) = 254
              lenAt == IF marked THEN at + 2 ELSE at
          IN  /\ ("scene" \in DOMAIN rc_dict.value) <=> marked
              /\ (SysexOf(rc_dict.value) # <<>>) <=> (At(rc_data, lenAt) # 0)
    /\ (/\ rc_pc = "done" /\ rc_item # <<>> /\ rc_item.type = "Setup"
        /\ IsOk(rc_rec) /\ IsOk(rc_dict)) =>
          /\ SceneOf(rc_dict.value) = SceneOf(rc_item)
          /\ SysexOf(rc_dict.value) = SysexOf(rc_item)

(***************************************************************************)
(* Setup: the bank, program and volume bytes of a channel                  *)
(***************************************************************************)
\* C24: the bank, program and volume bytes of a Setup record are encoded
\* without loss: for every byte b in one of those positions of a decoded
\* record, encoding the decoded value gives b again; 0x7F decodes to "Off"
\* for the program and the volume, a byte with bit 0x80 set to the integer
\* b - 0x80, and a bank byte with bit 0x80 clear to the folded value
\* "<b + 1>m".
C24_ChannelBytes ==
    (/\ rc_pc = "done" /\ rc_item = <<>> /\ IsOk(rc_rec)
     /\ rc_rec.value.cls = "Setup" /\ IsOk(rc_dict)
     /\ "channels" \in DOMAIN rc_dict.value) =>
        LET chans == rc_dict.value.channels
            byte(k, j) == At(rc_data, 3 * k + j)
        IN  \A k \in 1..Len(chans) :
              /\ folded_reverse(chans[k].bank) = byte(k, 0)
              /\ seven_bit_reverse(chans[k].program) = byte(k, 1)
              /\ seven_bit_reverse(chans[k].volume) = byte(k, 2)
              /\ byte(k, 0) < 128 =>
                    chans[k].bank = [m |-> TRUE, v |-> byte(k, 0) + 1]
              /\ byte(k, 0) >= 128 =>
                    chans[k].bank = [m |-> FALSE, v |-> byte(k, 0) - 128]
              /\ \A j \in {1, 2} :
                    LET value == IF j = 1 THEN chans[k].program ELSE chans[k].volume
                    IN  /\ byte(k, j) = 127 => value.off
                        /\ byte(k, j) >= 128 =>
                              ~value.off /\ value.v = byte(k, j) - 128

(***************************************************************************)
(* pack and the accessors, variant by variant                              *)
(***************************************************************************)
\* the variants whose pack and accessors agree on the layout
InverseVariants ==
    {"CC", "Master", "String", "Mute", "Solo", "ProgramChange", "NoteOnOff",
     "ButtonString", "StringPressRelease", "StringToggle", "SendFader"}

\* a document item as to_dict reports it: an empty name is left out
Reported(item) ==
    IF "name" \in DOMAIN item /\ item.name = <<>>
    THEN [k \in DOMAIN item \ {"name"} |-> item[k]]
    ELSE item

\* C25: for the variants CC, Master, String, Mute, Solo, ProgramChange,
\* NoteOnOff, ButtonString, StringPressRelease, StringToggle and SendFader,
\* encode is the inverse of decode: an item with in-range fields and a name
\* of 0..15 printable characters is packed as the name-length/type byte,
\* the fields, each blob behind its length byte, then the name, and the
\* accessors read back exactly the fields, the blobs and the name packed.
C25_PackInverse ==
    (/\ rc_pc \in {"packed", "done"}
     /\ rc_item # <<>>
     /\ rc_item.type \in InverseVariants
     /\ Len(ItemName(rc_item)) <= 15) =>
        /\ IsOk(rc_rec)
        /\ LET data == rc_rec.value.data
               name == ItemName(rc_item)
           IN  /\ data[1] = 16 * Len(name) + TypeTag(rc_item.type)
               /\ SubSeq(data, Len(data) - Len(name) + 1, Len(data)) = name
        /\ rc_pc = "done" =>
              /\ IsOk(rc_dict)
              /\ rc_dict.value = Reported(rc_item)

C25_Witness ==
    /\ rc_pc = "done"
    /\ rc_item = [type |-> "StringPressRelease", press |-> <<102, 48, 55, 102>>,
                  release |-> <<102, 55>>, name |-> <<86, 111, 108>>]
    /\ rc_rec.value.data = <<54, 2, 240, 127, 1, 247, 86, 111, 108>>
    /\ rc_dict.value = rc_item

\* C26: SendScene encode is the inverse of decode: for every value of 0..255
\* and every name of 1..15 printable characters, decoding the record that
\* SendScene.pack produces returns the same value and the same name; the
\* name is read from the bytes after the 1-byte value.
C26_SendSceneInverse ==
    (/\ rc_pc = "done"
     /\ rc_item # <<>>
     /\ rc_item.type = "SendScene"
     /\ Len(ItemName(rc_item)) \in 1..15) =>
        /\ IsOk(rc_rec)
        /\ IsOk(rc_dict)
        /\ rc_dict.value.value = rc_item.value
        /\ rc_dict.value.name = rc_item.name

(***************************************************************************)
(* The embedded blobs are bytes, not text                                  *)
(***************************************************************************)
\* what the blob accessors of a record return
BlobsOf(rec) ==
    { Prop(rec.cls, rec.data, RecordFields(rec.cls)[i]) :
        i \in { j \in 1..Len(RecordFields(rec.cls)) :
                  RecordFields(rec.cls)[j] \in BlobFields } }

\* lowercase hexadecimal digits, two per byte
LowerHex(str) ==
    /\ Len(str) % 2 = 0
    /\ \A i \in 1..Len(str) : str[i] \in (48..57) \cup (97..102)

\* the original statement of C27: decoding a record one of whose embedded
\* blobs holds a byte outside 32..126 signals a decode error
C27_BlobsAreText ==
    (/\ rc_pc = "done" /\ rc_item = <<>> /\ IsOk(rc_rec)
     /\ \E b \in BlobsOf(rc_rec.value) :
           IsOk(b) /\ \E i \in 1..Len(b.value) : ~Printable(b.value[i])) =>
        ~IsOk(rc_dict)

\* C27: the embedded blobs are not validated as text.  A record whose
\* embedded blob (String.sysex, ButtonString.sysex, StringPressRelease press
\* and release, StringToggle sysex1 and sysex2, Setup.sysex) holds a byte
\* outside 32..126 is decoded like any other: the decode error of malformed
\* text is raised only for a name that holds such a byte, and every blob of a
\* decoded record is emitted as lowercase hexadecimal digits, two per byte
\* of the blob.
C27_BlobsAsHex ==
    (rc_pc = "done" /\ rc_item = <<>> /\ IsOk(rc_rec)) =>
        LET rec == rc_rec.value
            blob == FirstBlob(rec.cls)
        IN  /\ rc_dict.exc = "UnsupportedFormatError" =>
                  \E j \in 1..Len(NameRange(rec)) : ~Printable(NameRange(rec)[j])
            /\ IsOk(rc_dict) =>
                  /\ \A f \in DOMAIN rc_dict.value \cap BlobFields :
                        LowerHex(rc_dict.value[f])
                  /\ blob # <<>> =>
                        FromHexBytes(rc_dict.value[blob[1]])
                            = Slice(rc_data, blob[2] + 1,
                                    blob[2] + 1 + At(rc_data, blob[2]))

\* the String record named "A" whose blob is f0 7f has been decoded
C27_Witness ==
    /\ rc_pc = "done"
    /\ rc_data = <<19, 7, 255, 254, 1, 44, 2, 240, 127, 65>>
    /\ IsOk(rc_dict)
    /\ rc_dict.value.sysex = <<102, 48, 55, 102>>
    /\ rc_dict.value.name = <<65>>

(***************************************************************************)
(* The section sizes of an encoded document                                *)
(***************************************************************************)
\* the number of items of each section, in the order of the dump
SectionCounts(doc) == [k \in 1..5 |-> Len(doc[SectionOrder[k]])]

\* C28: encoding enforces the section sizes: a document is encoded only when
\* it holds exactly 16 fader, 2 CV, 16 button, 1 data-wheel and 1 setup
\* items; every dump emitted holds exactly 36 records, and decoding it puts
\* as many items in each section as the document has there.
C28_SectionSizes ==
    (/\ cd_pc \in {"encoded", "done"}
     /\ cd_src \in {"valid_doc", "broken_doc", "version_doc", "miscounted_doc"}
     /\ IsOk(cd_out)) =>
        /\ SectionCounts(cd_doc.value) = <<16, 2, 16, 1, 1>>
        /\ Len(cd_patch.value.records) = 36
        /\ (cd_pc = "done" /\ IsOk(cd_back)) =>
              SectionCounts(cd_back.value) = SectionCounts(cd_doc.value)

(***************************************************************************)
(* Setup: the channels of an item whose keys are in any order              *)
(***************************************************************************)
\* C29: the data of a Setup channel stays with its channel: encode writes
\* the bank, program and volume triples in the order in which decode reads
\* them (ascending channel id), so that decoding the packed item gives every
\* channel id of the item the item's bank, program and volume, whatever the
\* order of the channel keys in the document.
C29_ChannelsKeepData ==
    (/\ rc_pc = "done"
     /\ rc_item # <<>>
     /\ rc_item.type = "Setup"
     /\ "channels" \in DOMAIN rc_item
     /\ IsOk(rc_rec) /\ IsOk(rc_dict)) =>
        /\ "channels" \in DOMAIN rc_dict.value
        /\ Len(rc_dict.value.channels) = Len(rc_item.channels)
        /\ \A i \in 1..Len(rc_item.channels) :
              \E j \in 1..Len(rc_dict.value.channels) :
                  rc_dict.value.channels[j] = rc_item.channels[i]

(***************************************************************************)
(* Termination of the scan.  The loop of parse_records is sequential code: *)
(* as long as an iteration can be run, one is run.                         *)
(***************************************************************************)
SpecScanFair == SpecScan /\ WF_vars(NextScan)

\* the cursor is inside the buffer, or at its end
CursorInside == sc_pc \in {"scan", "done"} => sc_st.record_offset <= Len(sc_data)

\* an iteration that completes moves the cursor forward by one byte or more
CursorAdvances ==
    (sc_pc = "scan" /\ sc_pc' \in {"scan", "done"}) =>
        sc_st'.record_offset >= sc_st.record_offset + 1

====
